---- MODULE Spec2Model ----
(***************************************************************************)
(* The retrying operation executor (GitLabClient._with_retries), the       *)
(* check-then-act reconciliation functions built on it (create_branch,     *)
(* protect_branch, add_approval_rule and their wrappers in src/api) and    *)
(* the driver loop of main.py, run against a model of the remote platform. *)
(*                                                                         *)
(* One step of the executor is one iteration of its while loop: the loop   *)
(* test, one invocation of the operation (one request to the remote), the  *)
(* classification of the fault and the sleep that follows it.              *)
(***************************************************************************)
EXTENDS Integers, Sequences, FiniteSets, TLC

\* ------------------------------------------------------------------ bounds
MaxRetries == 4   \* MAX_RETRIES ranges over 0..MaxRetries
MaxDelay == 2     \* RETRY_DELAY ranges over 1..MaxDelay (executor specification)
MaxRuns == 2      \* the driver is run at most MaxRuns times against the same remote
MaxFaults == 1    \* faults the remote injects while the driver runs

\* ------------------------------------------------------- program constants
DefaultRetryDelay == 1            \* os.getenv("RETRY_DELAY", "1")
DefaultStatus == 500              \* getattr(e, 'response_code', 500)
ApprovalsRequired == 1            \* 'approvals_required': 1

VARIABLES
    max_retries,   \* GitLabClient.max_retries
    retry_delay,   \* GitLabClient.retry_delay
    config,        \* the Config singleton: access, core_branches, wildcard_branches_config
    remote,        \* the remote platform: per project its branches, protection and approval rules
    ex,            \* the activation of _with_retries
    cl,            \* the activation of the client function and of its src/api wrapper
    calls,         \* the requests sent to the remote by the current top-level call, in order
    top            \* the caller: the harness (direct calls) or main()

vars == <<max_retries, retry_delay, config, remote, ex, cl, calls, top>>

\* ------------------------------------------------------------------ names
Projects == {"p1", "p2"}
GroupId == "grp"
Develop == "develop"
Staging == "staging"
ReleasePattern == "release/*"
ReleaseBranch == "release/1.0"
RuleName == "Maintainers Approval"   \* default of add_approval_rule's rule_name

\* ------------------------------------------------------- sequence helpers
Last(s) == s[Len(s)]

\* Python's `pat in text`, on texts split into words.
Contains(text, pat) ==
    \E i \in 0..(Len(text) - Len(pat)) : SubSeq(text, i + 1, i + Len(pat)) = pat

\* ------------------------------------------------------------------ faults
\* A fault is an exception object: its class, whether it has a response_code
\* attribute and which, and its message (str(e)).
NoFault == [cls |-> "none", has_code |-> FALSE, code |-> 0, msg |-> <<>>]

Fault(c, code, m) == [cls |-> c, has_code |-> TRUE, code |-> code, msg |-> m]

\* An exception raised without the response_code attribute.
BareFault(c, m) == [cls |-> c, has_code |-> FALSE, code |-> 0, msg |-> m]

\* The exception classes the code names, and the transport's own exception.
SuperClasses(c) ==
    CASE c = "GitlabGetError"    -> {"GitlabGetError", "GitlabError", "Exception"}
      [] c = "GitlabListError"   -> {"GitlabListError", "GitlabError", "Exception"}
      [] c = "GitlabCreateError" -> {"GitlabCreateError", "GitlabError", "Exception"}
      [] c = "GitlabError"       -> {"GitlabError", "Exception"}
      [] c = "ConnectionError"   -> {"ConnectionError", "Exception"}
      [] OTHER                   -> {}

IsInstance(e, c) == c \in SuperClasses(e.cls)

MsgBranchExists == <<"Branch", "already", "exists">>
MsgAlreadyProtected == <<"name", "has", "already", "been", "protected">>
MsgProtectedConflict == <<"Protected", "branch", "already", "exists">>
MsgNameTaken == <<"name", "has", "already", "been", "taken">>
MsgNotFound == <<"Branch", "Not", "Found">>
MsgForbidden == <<"Forbidden">>
MsgServerError == <<"Internal", "Server", "Error">>
MsgFound == <<"Found">>
MsgUnreachable == <<"Connection", "refused">>
MsgMaxRetries == <<"Max", "retries", "exceeded">>

\* ------------------------------------------------------------- the remote
\* The remote platform is outside the repository; it is modelled from the
\* capability set of the specification (section 6).  A request is answered
\* either according to the state of the project (the nominal answer) or by an
\* injected fault.
NoAttrs == [ref |-> "", push |-> 0, merge |-> 0, unprotect |-> 0,
            force |-> FALSE, codeowner |-> FALSE, approvals |-> 0, group |-> ""]

Req(api, project, name, attrs) ==
    [api |-> api, project |-> project, name |-> name, attrs |-> attrs]

NoReq == Req("none", "", "", NoAttrs)

EmptyProject == [branches |-> {}, protectedbranches |-> {}, approvalrules |-> {}]

RuleNames(rules) == {r.name : r \in rules}

Answer(value, after) ==
    [ok |-> TRUE, value |-> value, fault |-> NoFault, after |-> after, injected |-> FALSE]

Reject(fault, after) ==
    [ok |-> FALSE, value |-> {}, fault |-> fault, after |-> after, injected |-> FALSE]

Inject(fault, after) ==
    [ok |-> FALSE, value |-> {}, fault |-> fault, after |-> after, injected |-> TRUE]

ReadApis == {"listGroups", "listSubgroups", "listProjects"}

\* What the request does to the project when the remote carries it out.
Applied(req, p) ==
    CASE req.api = "createBranch" ->
            [p EXCEPT !.branches = @ \cup {req.name}]
      [] req.api = "createProtectedBranch" ->
            [p EXCEPT !.protectedbranches = @ \cup
                {[name |-> req.name, push |-> req.attrs.push, merge |-> req.attrs.merge,
                  unprotect |-> req.attrs.unprotect, force |-> req.attrs.force,
                  codeowner |-> req.attrs.codeowner]}]
      [] req.api = "createApprovalRule" ->
            [p EXCEPT !.approvalrules = @ \cup
                {[name |-> req.name, approvals |-> req.attrs.approvals,
                  group |-> req.attrs.group]}]
      [] OTHER -> p

\* Whether the resource the request names is on the project.
Present(req, p) ==
    CASE req.api \in {"getBranch", "createBranch"} -> req.name \in p.branches
      [] req.api = "createProtectedBranch" -> req.name \in RuleNames(p.protectedbranches)
      [] req.api = "createApprovalRule" -> req.name \in RuleNames(p.approvalrules)
      [] OTHER -> FALSE

\* The answer the state of the project determines.
Nominal(req, p) ==
    CASE req.api = "getBranch" ->
            IF Present(req, p) THEN Answer({req.name}, p)
            ELSE Reject(Fault("GitlabGetError", 404, MsgNotFound), p)
      [] req.api = "createBranch" ->
            IF Present(req, p) THEN Reject(Fault("GitlabCreateError", 400, MsgBranchExists), p)
            ELSE Answer({}, Applied(req, p))
      [] req.api = "listProtectedBranches" -> Answer(RuleNames(p.protectedbranches), p)
      [] req.api = "createProtectedBranch" ->
            IF Present(req, p) THEN Reject(Fault("GitlabCreateError", 422, MsgAlreadyProtected), p)
            ELSE Answer({}, Applied(req, p))
      [] req.api = "listApprovalRules" -> Answer(RuleNames(p.approvalrules), p)
      [] req.api = "createApprovalRule" ->
            IF Present(req, p) THEN Reject(Fault("GitlabCreateError", 400, MsgNameTaken), p)
            ELSE Answer({}, Applied(req, p))
      [] req.api = "listProjects" -> Answer(Projects, p)
      [] OTHER -> Answer({GroupId}, p)

ErrorClass(api) ==
    CASE api \in {"getBranch"} -> "GitlabGetError"
      [] api \in {"createBranch", "createProtectedBranch", "createApprovalRule"} -> "GitlabCreateError"
      [] OTHER -> "GitlabListError"

IsCreate(api) == api \in {"createBranch", "createProtectedBranch", "createApprovalRule"}

\* The faults the remote can answer a request with instead.
Injected(req, p) ==
    LET c == ErrorClass(req.api) IN
    {Inject(Fault(c, 500, MsgServerError), p),
     Inject(Fault(c, 403, MsgForbidden), p),
     Inject(BareFault("ConnectionError", MsgUnreachable), p)}
    \cup (IF req.api \in ReadApis
          THEN {Inject(Fault(c, 409, MsgProtectedConflict), p),
                Inject(Fault(c, 302, MsgFound), p),
                Inject(BareFault(c, MsgServerError), p)}
          ELSE {})
    \cup (IF IsCreate(req.api) /\ ~Present(req, p)
          THEN {Inject(Fault(c, 500, MsgServerError), Applied(req, p))}
          ELSE {})
    \cup (IF IsCreate(req.api) /\ Present(req, p)
          THEN {Inject(Fault(c, 409, MsgProtectedConflict), p)}
          ELSE {})

Responses(req, p, flaky) ==
    {Nominal(req, p)} \cup (IF flaky THEN Injected(req, p) ELSE {})

\* ---------------------------------------------------------- configuration
Roles == {"no_access", "guest", "reporter", "developer", "maintainer", "owner"}

\* The access-level map of the default configuration (config.py).
DefaultAccess ==
    [r \in Roles |->
        CASE r = "no_access" -> 0 [] r = "guest" -> 10 [] r = "reporter" -> 20
          [] r = "developer" -> 30 [] r = "maintainer" -> 40 [] OTHER -> 50]

CoreBranch(name, push, merge, approval) ==
    [name |-> name, ref |-> "main", push_access_level |-> push,
     merge_access_level |-> merge, approval_required |-> approval]

WildcardBranch(pattern, push, merge) ==
    [pattern |-> pattern, push_access_level |-> push, merge_access_level |-> merge]

Configuration(core, wild) ==
    [access |-> DefaultAccess, core_branches |-> core, wildcard_branches_config |-> wild]

\* schemas.py and config.py: the configuration document is validated and
\* loaded.  A role name of the document is a string, the null of YAML (None),
\* or the key is left out.
None == "None"
Omitted == "<omitted>"

\* push_access_level: Optional[str] = "maintainer": the default stands for a
\* key that is left out; None and "" are values of the field.
FieldValue(raw, default) == IF raw = Omitted THEN default ELSE raw

CoreBranch_model(raw) ==
    [raw EXCEPT !.push_access_level = FieldValue(@, "maintainer"),
                !.merge_access_level = FieldValue(@, "maintainer")]

WildcardBranch_model(raw) ==
    [raw EXCEPT !.push_access_level = FieldValue(@, "developer"),
                !.merge_access_level = FieldValue(@, "developer")]

\* `if branch.push_access_level and ...`: None and "" are false.
Truthy(level) == level \notin {None, ""}

validate_branch_access_levels(access_levels, core_branches, wildcard_branches) ==
    LET valid_access_levels == DOMAIN access_levels
        Valid(b) ==
            /\ Truthy(b.push_access_level) => b.push_access_level \in valid_access_levels
            /\ Truthy(b.merge_access_level) => b.merge_access_level \in valid_access_levels
    IN /\ \A i \in DOMAIN core_branches : Valid(core_branches[i])
       /\ \A i \in DOMAIN wildcard_branches : Valid(wildcard_branches[i])

\* load_branch_protection_config and Config.load: the validated document, or
\* the default configuration when validation raised; model_dump keeps None
\* and "".
\* Mutant: a document that fails validation is returned as it was read.
load_branch_protection_config_unvalidated(raw) ==
    LET core == [i \in DOMAIN raw.core_branches |-> CoreBranch_model(raw.core_branches[i])]
        wild == [i \in DOMAIN raw.wildcard_branches_config |->
                    WildcardBranch_model(raw.wildcard_branches_config[i])]
    IN Configuration(core, wild)

load_branch_protection_config(raw) ==
    LET core == [i \in DOMAIN raw.core_branches |-> CoreBranch_model(raw.core_branches[i])]
        wild == [i \in DOMAIN raw.wildcard_branches_config |->
                    WildcardBranch_model(raw.wildcard_branches_config[i])]
    IN IF validate_branch_access_levels(raw.access, core, wild)
       THEN Configuration(core, wild)
       ELSE Configuration(<<>>, <<>>)

\* ------------------------------------------------------------- activations
\* Of an activation of _with_retries: hist is the faults the operation raised,
\* sleeps the delays slept, log the levels of the lines logged, and events the
\* invocations of the operation, the lines logged and the sleeps, in order.
ExIdle ==
    [pc |-> "idle", req |-> NoReq, retries |-> 0, attempts |-> 0, hist |-> <<>>,
     sleeps |-> <<>>, log |-> <<>>, events |-> <<>>, value |-> {}, exc |-> NoFault]

NoArgs ==
    [project |-> "", name |-> "", ref |-> "", push |-> 0, merge |-> 0,
     wildcard |-> FALSE, group |-> "", rule_name |-> ""]

NoResult == [status |-> "", message |-> <<>>]
NoStatus == [text |-> "", reason |-> <<>>]

ClIdle ==
    [fn |-> "none", args |-> NoArgs, pc |-> "idle", result |-> NoResult,
     value |-> {}, exc |-> NoFault, status |-> NoStatus]

NoCall == [fn |-> "none", args |-> NoArgs, text |-> ""]

\* The caller.  mode is "harness" when the functions of src/api are called
\* directly and "driver" when main() runs.  Of main(): todo is the rest of
\* projects_to_process, bi and wi the positions of the two loops over the
\* configuration, status the value of create_branch held until it is recorded,
\* results the list of the project, audit the status lines written for it.
\* run, injected and faults count the runs and the injected faults (all, and
\* of this run), before is the remote when the run started and trace the
\* operations and sleeps of the project, in order.  selected is
\* projects_to_process, processed the projects whose status lines were
\* written, error what the except clause of main() caught, and actor the
\* resource another actor created on the remote during the current call.
TopIdle ==
    [mode |-> "harness", pc |-> "idle", prev |-> NoCall, run |-> 0, injected |-> 0,
     faults |-> 0, before |-> [p \in Projects |-> EmptyProject], todo |-> <<>>, bi |-> 0, wi |-> 0,
     status |-> NoStatus, results |-> <<>>, audit |-> <<>>, trace |-> <<>>,
     selected |-> <<>>, processed |-> <<>>, error |-> "", actor |-> ""]

\* Whether the remote may answer the next request with an injected fault.
CanInject == top.mode = "harness" \/ top.injected < MaxFaults

\* ------------------------------------------------------------ the executor
\* Mutant: the count of retries starts one below zero.
Enter_one_below(req) == [ExIdle EXCEPT !.pc = "loop", !.req = req, !.retries = -1]

\* _with_retries, lines 233-238: the defaults and retries = 0.
Enter(req) == [ExIdle EXCEPT !.pc = "loop", !.req = req]

\* Mutant: a fault without a status code is given a status outside 400..599.
status_code_default_zero(e) == IF e.has_code THEN e.code ELSE 0

\* status_code = getattr(e, 'response_code', 500)
status_code(e) == IF e.has_code THEN e.code ELSE DefaultStatus

is_server_error(sc) == 500 <= sc /\ sc < 600
\* Mutant: a 409 conflict is not treated as a client error.
is_client_error_without_conflict(sc) == 400 <= sc /\ sc < 500 /\ sc # 409

is_client_error(sc) == 400 <= sc /\ sc < 500

\* Mutant: the delay grows by base_delay with each retry.
sleep_time_linear(retries) == retry_delay * retries

\* Mutant: the exponent is the retry count, not the retry count less one.
sleep_time_exponent_off_by_one(retries) == retry_delay * (2 ^ retries)

\* sleep_time = retry_delay * (2 ** (retries - 1))
sleep_time(retries) == retry_delay * (2 ^ (retries - 1))

\* Mutant: on exhaustion the fault is logged and the loop is left without a raise.
retry_or_raise_falls_through(x, e, delay) ==
    LET r == x.retries + 1 IN
    IF r >= max_retries
    THEN [x EXCEPT !.retries = r, !.log = Append(@, "error"),
                   !.events = Append(@, "error")]
    ELSE [x EXCEPT !.retries = r, !.log = Append(@, "warning"),
                   !.events = @ \o <<"warning", "sleep">>,
                   !.sleeps = Append(@, delay)]

\* Mutant: the budget test is `retries > max_retries`.
retry_or_raise_one_more(x, e, delay) ==
    LET r == x.retries + 1 IN
    IF r > max_retries
    THEN [x EXCEPT !.retries = r, !.log = Append(@, "error"),
                   !.events = Append(@, "error"), !.pc = "raised", !.exc = e]
    ELSE [x EXCEPT !.retries = r, !.log = Append(@, "warning"),
                   !.events = @ \o <<"warning", "sleep">>,
                   !.sleeps = Append(@, delay)]

\* One retry of the budget is used; either the fault is re-raised or the
\* executor logs a warning and sleeps for `delay`.
retry_or_raise(x, e, delay) ==
    LET r == x.retries + 1 IN
    IF r >= max_retries
    THEN [x EXCEPT !.retries = r, !.log = Append(@, "error"),
                   !.events = Append(@, "error"), !.pc = "raised", !.exc = e]
    ELSE [x EXCEPT !.retries = r, !.log = Append(@, "warning"),
                   !.events = @ \o <<"warning", "sleep">>,
                   !.sleeps = Append(@, delay)]

\* Mutant: every client error is logged as an error.
except_GitlabError_logs_error(x, e) ==
    LET sc == status_code(e) IN
    IF is_server_error(sc)
    THEN retry_or_raise(x, e, sleep_time(x.retries + 1))
    ELSE IF is_client_error(sc)
         THEN [x EXCEPT !.log = Append(@, "error"), !.events = Append(@, "error"),
                        !.pc = "raised", !.exc = e]
         ELSE retry_or_raise(x, e, retry_delay)

\* except GitlabError as e: lines 242-273.
except_GitlabError(x, e) ==
    LET sc == status_code(e) IN
    IF is_server_error(sc)
    THEN retry_or_raise(x, e, sleep_time(x.retries + 1))
    ELSE IF is_client_error(sc)
         THEN [x EXCEPT !.log = Append(@, IF sc = 409 THEN "debug" ELSE "info"),
                        !.events = Append(@, IF sc = 409 THEN "debug" ELSE "info"),
                        !.pc = "raised", !.exc = e]
         ELSE retry_or_raise(x, e, retry_delay)

\* What the invocation of the operation leaves of the executor's activation.
invoked(x, r) ==
    LET y == [x EXCEPT !.attempts = @ + 1, !.events = Append(@, "operation")] IN
    IF r.ok THEN [y EXCEPT !.pc = "returned", !.value = r.value]
    ELSE LET z == [y EXCEPT !.hist = Append(@, r.fault)] IN
         IF IsInstance(r.fault, "GitlabError")
         THEN except_GitlabError(z, r.fault)
         ELSE [z EXCEPT !.pc = "raised", !.exc = r.fault]

ProjectOf(req) == IF req.project \in Projects THEN remote[req.project] ELSE EmptyProject

Outcome(r) == IF r.ok THEN "ok" ELSE IF r.injected THEN "fault" ELSE "rejected"

\* One iteration of `while retries < max_retries`: the operation is invoked,
\* the remote answers, and the fault (if any) is classified.
with_retries ==
    /\ ex.pc = "loop"
    /\ ex.retries < max_retries
    /\ \E r \in Responses(ex.req, ProjectOf(ex.req), CanInject) :
        /\ ex' = invoked(ex, r)
        /\ remote' = IF ex.req.project \in Projects
                     THEN [remote EXCEPT ![ex.req.project] = r.after]
                     ELSE remote
        /\ calls' = Append(calls, [api |-> ex.req.api, outcome |-> Outcome(r),
                                   effect |-> r.after # ProjectOf(ex.req)])
        /\ top' = IF top.mode = "driver" /\ r.injected
                  THEN [top EXCEPT !.injected = @ + 1, !.faults = @ + 1]
                  ELSE top
    /\ UNCHANGED <<max_retries, retry_delay, config, cl>>

\* raise GitlabError("Max retries exceeded")
MaxRetriesExceeded == BareFault("GitlabError", MsgMaxRetries)

\* The loop ends without a return or a raise: lines 275-276.
with_retries_exceeded ==
    /\ ex.pc = "loop"
    /\ ~(ex.retries < max_retries)
    /\ ex' = [ex EXCEPT !.log = Append(@, "error"), !.events = Append(@, "error"),
                        !.pc = "raised", !.exc = MaxRetriesExceeded]
    /\ UNCHANGED <<max_retries, retry_delay, config, remote, cl, calls, top>>

\* ------------------------------------------------- client: read functions
ListApi(fn) ==
    CASE fn = "get_groups" -> "listGroups"
      [] fn = "get_subgroups" -> "listSubgroups"
      [] OTHER -> "listProjects"

Finished == cl.pc \in {"idle", "done"}

\* GitLabClient.get_groups / get_subgroups / get_projects: the listing is
\* handed to _with_retries.
list_begin(fn) ==
    /\ cl' = [ClIdle EXCEPT !.fn = fn, !.args.group = GroupId, !.pc = "list"]
    /\ ex' = Enter(Req(ListApi(fn), "", GroupId, NoAttrs))
    /\ calls' = <<>>

list_call(fn) ==
    /\ top.mode = "harness"
    /\ Finished
    /\ list_begin(fn)
    /\ top' = [top EXCEPT !.prev = NoCall]
    /\ UNCHANGED <<max_retries, retry_delay, config, remote>>

\* The value of _with_retries is returned, its fault propagates.
list_return ==
    /\ cl.pc = "list"
    /\ ex.pc \in {"returned", "raised"}
    /\ cl' = IF ex.pc = "returned"
             THEN [cl EXCEPT !.pc = "done", !.value = ex.value]
             ELSE [cl EXCEPT !.pc = "done", !.exc = ex.exc]
    /\ UNCHANGED <<max_retries, retry_delay, config, remote, ex, calls, top>>

\* ------------------------------------------- the executor's specification
\* The client is constructed with MAX_RETRIES and RETRY_DELAY of the
\* environment and its read functions are called, any number of times.
ExecInit ==
    /\ max_retries \in 0..MaxRetries
    /\ retry_delay \in 1..MaxDelay
    /\ config = Configuration(<<>>, <<>>)
    /\ remote = [p \in Projects |-> EmptyProject]
    /\ ex = ExIdle
    /\ cl = ClIdle
    /\ calls = <<>>
    /\ top = TopIdle

ExecNext ==
    \/ \E fn \in {"get_groups", "get_subgroups", "get_projects"} : list_call(fn)
    \/ with_retries
    \/ with_retries_exceeded
    \/ list_return

ExecSpec == ExecInit /\ [][ExecNext]_vars

\* The loop is run by one thread: an invocation of the operation ends and a
\* sleep ends, so the step of the loop that is due is taken.
ExecFairSpec ==
    ExecSpec /\ WF_vars(with_retries) /\ WF_vars(with_retries_exceeded)

\* ------------------------------------- client: reconciliation functions
Result(status, message) == [status |-> status, message |-> message]
Status(text, reason) == [text |-> text, reason |-> reason]

\* How an activation of a client function ends: it returns a status
\* dictionary, or a fault leaves it.
Returns(result) == [result |-> result, exc |-> NoFault]
Raises(e) == [result |-> NoResult, exc |-> e]

\* The status dictionaries the client functions return.
BranchCreated == Returns(Result("created", <<"Branch", "created", "successfully">>))
BranchAlreadyExists == Returns(Result("already_exists", <<"Branch", "already", "exists">>))
BranchProtected == Returns(Result("protected", <<"Branch", "protected", "successfully">>))
BranchAlreadyProtected ==
    Returns(Result("already_protected", <<"Branch", "is", "already", "protected">>))
RuleAdded == Returns(Result("created", <<"Approval", "rule", "added">>))
RuleAlreadyExists ==
    Returns(Result("already_exists", <<"Approval", "rule", "already", "exists">>))

\* The texts the except clauses look for in str(e).
TextAlreadyExists == <<"already", "exists">>
TextAlreadyBeenProtected == <<"already", "been", "protected">>
TextAlreadyBeenTaken == <<"has", "already", "been", "taken">>

\* Mutant: the collision is recognised by the status 409, not by the text.
create_branch_except_by_status(e) ==
    IF IsInstance(e, "GitlabCreateError")
    THEN IF e.has_code /\ e.code = 409
         THEN BranchAlreadyExists
         ELSE Returns(Result("error", e.msg))
    ELSE Raises(e)

\* GitLabClient.create_branch, lines 107-110.
create_branch_except_any_rejection(e) ==
    IF IsInstance(e, "GitlabCreateError")
    THEN BranchAlreadyExists
    ELSE Raises(e)

create_branch_except(e) ==
    IF IsInstance(e, "GitlabCreateError")
    THEN IF Contains(e.msg, TextAlreadyExists)
         THEN BranchAlreadyExists
         ELSE Returns(Result("error", e.msg))
    ELSE Raises(e)

\* Mutant: every fault of the creation is taken for a collision.
protect_branch_except_any_fault(e) ==
    IF IsInstance(e, "GitlabCreateError") THEN BranchAlreadyProtected ELSE Raises(e)

\* Mutant: the text looked for is the one create_branch looks for.
protect_branch_except_other_text(e) ==
    IF IsInstance(e, "GitlabCreateError")
    THEN IF Contains(e.msg, TextAlreadyExists)
         THEN BranchAlreadyProtected
         ELSE Returns(Result("error", e.msg))
    ELSE Raises(e)

\* GitLabClient.protect_branch, lines 164-167.
protect_branch_except(e) ==
    IF IsInstance(e, "GitlabCreateError")
    THEN IF Contains(e.msg, TextAlreadyBeenProtected)
         THEN BranchAlreadyProtected
         ELSE Returns(Result("error", e.msg))
    ELSE Raises(e)

\* GitLabClient.add_approval_rule, lines 213-216.
add_approval_rule_except(e) ==
    IF IsInstance(e, "GitlabCreateError")
    THEN IF Contains(e.msg, TextAlreadyBeenTaken)
         THEN RuleAlreadyExists
         ELSE Returns(Result("error", e.msg))
    ELSE Raises(e)

\* The status lines without a reason.
StatusCreated == Status("Created", <<>>)
StatusAlreadyExists == Status("Already exists", <<>>)
StatusProtected == Status("Protected", <<>>)
StatusAlreadyProtected == Status("Already protected", <<>>)
StatusRuleAdded == Status("Approval rule added", <<>>)
StatusRuleAlreadyExists == Status("Approval rule already exists", <<>>)

\* Mutant: the wrapper has no except clause, the fault leaves it.
wrap_create_branch_reraises(end) ==
    IF end.exc # NoFault THEN NoStatus
    ELSE IF end.result.status = "created" THEN StatusCreated
    ELSE IF end.result.status = "already_exists" THEN StatusAlreadyExists
    ELSE Status("Error", end.result.message)

\* src/api/branches.py create_branch, lines 27-54: the status line of the wrapper.
wrap_create_branch(end) ==
    IF end.exc # NoFault THEN Status("Error", end.exc.msg)
    ELSE IF end.result.status = "created" THEN StatusCreated
    ELSE IF end.result.status = "already_exists" THEN StatusAlreadyExists
    ELSE Status("Error", end.result.message)

\* Mutant: the wrapper has no case for already_protected.
wrap_protect_branch_without_already(end) ==
    IF end.exc # NoFault THEN Status("Protect error", end.exc.msg)
    ELSE IF end.result.status = "protected" THEN StatusProtected
    ELSE Status("Protect error", end.result.message)

\* src/api/branches.py protect_branch, lines 91-115.
wrap_protect_branch(end) ==
    IF end.exc # NoFault THEN Status("Protect error", end.exc.msg)
    ELSE IF end.result.status = "protected" THEN StatusProtected
    ELSE IF end.result.status = "already_protected" THEN StatusAlreadyProtected
    ELSE Status("Protect error", end.result.message)

\* Mutant: the wrapper has no except clause, the fault leaves it.
wrap_add_approval_rule_reraises(end) ==
    IF end.exc # NoFault THEN NoStatus
    ELSE IF end.result.status = "created" THEN StatusRuleAdded
    ELSE IF end.result.status = "already_exists" THEN StatusRuleAlreadyExists
    ELSE Status("Approval rule error", end.result.message)

\* src/api/approvals.py add_approval_rule, lines 41-55.
wrap_add_approval_rule(end) ==
    IF end.exc # NoFault THEN Status("Approval rule error", end.exc.msg)
    ELSE IF end.result.status = "created" THEN StatusRuleAdded
    ELSE IF end.result.status = "already_exists" THEN StatusRuleAlreadyExists
    ELSE Status("Approval rule error", end.result.message)

Wrap(fn, end) ==
    CASE fn = "create_branch" -> wrap_create_branch(end)
      [] fn = "protect_branch" -> wrap_protect_branch(end)
      [] OTHER -> wrap_add_approval_rule(end)

\* The client function ends and its wrapper returns the status line.
Done(frame, end) ==
    [frame EXCEPT !.pc = "done", !.result = end.result, !.exc = end.exc,
                  !.status = Wrap(frame.fn, end)]

ExFinished == ex.pc \in {"returned", "raised"}

\* The requests of the three functions.
GetBranchReq(a) == Req("getBranch", a.project, a.name, NoAttrs)

CreateBranchReq(a) == Req("createBranch", a.project, a.name, [NoAttrs EXCEPT !.ref = a.ref])

ListProtectedReq(a) == Req("listProtectedBranches", a.project, "", NoAttrs)

\* Mutant: the push level and the merge level change places.
CreateProtectedReq_swapped(a) ==
    Req("createProtectedBranch", a.project, a.name,
        [NoAttrs EXCEPT !.push = a.merge, !.merge = a.push,
                        !.unprotect = config.access["maintainer"],
                        !.force = FALSE, !.codeowner = FALSE])

\* branches.py passes config.access["maintainer"], False, False.
CreateProtectedReq(a) ==
    Req("createProtectedBranch", a.project, a.name,
        [NoAttrs EXCEPT !.push = a.push, !.merge = a.merge,
                        !.unprotect = config.access["maintainer"],
                        !.force = FALSE, !.codeowner = FALSE])

ListApprovalReq(a) == Req("listApprovalRules", a.project, "", NoAttrs)

CreateApprovalReq(a) ==
    Req("createApprovalRule", a.project, a.rule_name,
        [NoAttrs EXCEPT !.approvals = ApprovalsRequired, !.group = a.group])

\* Mutant: no function checks before it creates.
FirstStep_never_checks(fn, a) ==
    CASE fn = "create_branch" -> [pc |-> "create", req |-> CreateBranchReq(a)]
      [] fn = "protect_branch" -> [pc |-> "create", req |-> CreateProtectedReq(a)]
      [] OTHER -> [pc |-> "create", req |-> CreateApprovalReq(a)]

\* Mutant: protect_branch checks the listing for a wildcard pattern too.
FirstStep_always_checks(fn, a) ==
    CASE fn = "create_branch" -> [pc |-> "probe", req |-> GetBranchReq(a)]
      [] fn = "protect_branch" -> [pc |-> "probe", req |-> ListProtectedReq(a)]
      [] OTHER -> [pc |-> "probe", req |-> ListApprovalReq(a)]

\* The wrapper is entered and calls the client function, which starts with its
\* existence check; protect_branch skips the check for a wildcard pattern.
FirstStep(fn, a) ==
    CASE fn = "create_branch" -> [pc |-> "probe", req |-> GetBranchReq(a)]
      [] fn = "protect_branch" ->
            IF ~a.wildcard THEN [pc |-> "probe", req |-> ListProtectedReq(a)]
            ELSE [pc |-> "create", req |-> CreateProtectedReq(a)]
      [] OTHER -> [pc |-> "probe", req |-> ListApprovalReq(a)]

Begin(fn, a) ==
    /\ cl' = [ClIdle EXCEPT !.fn = fn, !.args = a, !.pc = FirstStep(fn, a).pc]
    /\ ex' = Enter(FirstStep(fn, a).req)
    /\ calls' = <<>>

\* The branch names a pattern of the model stands for.
Matches(pattern, name) ==
    pattern = name \/ (pattern = ReleasePattern /\ name = ReleaseBranch)

\* Mutant: a listed pattern that matches the name counts as its rule.
any_name_equals_or_matches(names, name) == \E n \in names : Matches(n, name)

\* Mutant: the listing is never found to hold the name.
any_name_equals_never(names, name) == FALSE

\* any(x.name == name for x in listing): lines 125 and 182.
any_name_equals(names, name) == name \in names

\* Mutant: the creation is sent whatever the check found.
branch_exists_return_creates_anyway ==
    /\ cl.fn = "create_branch" /\ cl.pc = "probe" /\ ExFinished
    /\ IF ex.pc = "returned" \/ IsInstance(ex.exc, "GitlabGetError")
       THEN /\ cl' = [cl EXCEPT !.pc = "create"]
            /\ ex' = Enter(CreateBranchReq(cl.args))
       ELSE /\ cl' = Done(cl, create_branch_except(ex.exc))
            /\ ex' = ex
    /\ UNCHANGED <<max_retries, retry_delay, config, remote, calls, top>>

\* branch_exists has answered (lines 79-83), create_branch goes on (lines 99-105).
branch_exists_return ==
    /\ cl.fn = "create_branch" /\ cl.pc = "probe" /\ ExFinished
    /\ IF ex.pc = "returned"
       THEN /\ cl' = Done([cl EXCEPT !.value = ex.value], BranchAlreadyExists)
            /\ ex' = ex
       ELSE IF IsInstance(ex.exc, "GitlabGetError")
       THEN /\ cl' = [cl EXCEPT !.pc = "create"]
            /\ ex' = Enter(CreateBranchReq(cl.args))
       ELSE /\ cl' = Done(cl, create_branch_except(ex.exc))
            /\ ex' = ex
    /\ UNCHANGED <<max_retries, retry_delay, config, remote, calls, top>>

\* The creation has been answered: lines 102-110.
create_branch_return ==
    /\ cl.fn = "create_branch" /\ cl.pc = "create" /\ ExFinished
    /\ cl' = IF ex.pc = "returned"
             THEN Done(cl, BranchCreated)
             ELSE Done(cl, create_branch_except(ex.exc))
    /\ UNCHANGED <<max_retries, retry_delay, config, remote, ex, calls, top>>

\* Mutant: a rule found for the name is removed and created again with the
\* levels asked for.
is_branch_protected_return_replaces ==
    /\ cl.fn = "protect_branch" /\ cl.pc = "probe" /\ ExFinished
    /\ IF ex.pc = "returned"
       THEN /\ cl' = [cl EXCEPT !.pc = "create", !.value = ex.value]
            /\ ex' = Enter(CreateProtectedReq(cl.args))
            /\ remote' = [remote EXCEPT ![cl.args.project].protectedbranches =
                              {r \in @ : r.name # cl.args.name}]
       ELSE /\ cl' = Done(cl, protect_branch_except(ex.exc))
            /\ ex' = ex
            /\ remote' = remote
    /\ UNCHANGED <<max_retries, retry_delay, config, calls, top>>

\* is_branch_protected has answered (lines 124-125), protect_branch goes on
\* (lines 152-162).
is_branch_protected_return ==
    /\ cl.fn = "protect_branch" /\ cl.pc = "probe" /\ ExFinished
    /\ IF ex.pc = "returned"
       THEN IF any_name_equals(ex.value, cl.args.name)
            THEN /\ cl' = Done([cl EXCEPT !.value = ex.value], BranchAlreadyProtected)
                 /\ ex' = ex
            ELSE /\ cl' = [cl EXCEPT !.pc = "create", !.value = ex.value]
                 /\ ex' = Enter(CreateProtectedReq(cl.args))
       ELSE /\ cl' = Done(cl, protect_branch_except(ex.exc))
            /\ ex' = ex
    /\ UNCHANGED <<max_retries, retry_delay, config, remote, calls, top>>

\* The creation of the protection rule has been answered: lines 155-167.
protect_branch_return ==
    /\ cl.fn = "protect_branch" /\ cl.pc = "create" /\ ExFinished
    /\ cl' = IF ex.pc = "returned"
             THEN Done(cl, BranchProtected)
             ELSE Done(cl, protect_branch_except(ex.exc))
    /\ UNCHANGED <<max_retries, retry_delay, config, remote, ex, calls, top>>

\* approval_rule_exists has answered (lines 181-182), add_approval_rule goes
\* on (lines 200-211).
approval_rule_exists_return ==
    /\ cl.fn = "add_approval_rule" /\ cl.pc = "probe" /\ ExFinished
    /\ IF ex.pc = "returned"
       THEN IF any_name_equals(ex.value, cl.args.rule_name)
            THEN /\ cl' = Done([cl EXCEPT !.value = ex.value], RuleAlreadyExists)
                 /\ ex' = ex
            ELSE /\ cl' = [cl EXCEPT !.pc = "create", !.value = ex.value]
                 /\ ex' = Enter(CreateApprovalReq(cl.args))
       ELSE /\ cl' = Done(cl, add_approval_rule_except(ex.exc))
            /\ ex' = ex
    /\ UNCHANGED <<max_retries, retry_delay, config, remote, calls, top>>

\* The creation of the approval rule has been answered: lines 203-216.
add_approval_rule_return ==
    /\ cl.fn = "add_approval_rule" /\ cl.pc = "create" /\ ExFinished
    /\ cl' = IF ex.pc = "returned"
             THEN Done(cl, RuleAdded)
             ELSE Done(cl, add_approval_rule_except(ex.exc))
    /\ UNCHANGED <<max_retries, retry_delay, config, remote, ex, calls, top>>

Reconcile ==
    \/ with_retries
    \/ with_retries_exceeded
    \/ branch_exists_return
    \/ create_branch_return
    \/ is_branch_protected_return
    \/ protect_branch_return
    \/ approval_rule_exists_return
    \/ add_approval_rule_return

\* ------------------------------------------- direct calls of the functions
HarnessProject == "p1"
HarnessRoles == {"maintainer", "developer"}

Args(project, name, ref, push, merge, wildcard, group, rule_name) ==
    [project |-> project, name |-> name, ref |-> ref, push |-> push, merge |-> merge,
     wildcard |-> wildcard, group |-> group, rule_name |-> rule_name]

CreateBranchArgs(p, b, ref) == Args(p, b, ref, 0, 0, FALSE, "", "")
ProtectBranchArgs(p, b, push, merge, w) == Args(p, b, "", push, merge, w, "", "")
AddApprovalRuleArgs(p, b, g, rule) == Args(p, b, "", 0, 0, FALSE, g, rule)

\* The call that has just returned, kept when the next call is the same
\* function on the same resource.
SameResource(fn, a, b) ==
    IF fn = "add_approval_rule"
    THEN a.project = b.project /\ a.rule_name = b.rule_name /\ a.group = b.group
    ELSE a = b

Previous(fn, a) ==
    IF cl.pc = "done" /\ cl.fn = fn /\ SameResource(fn, cl.args, a)
    THEN [fn |-> cl.fn, args |-> cl.args, text |-> cl.status.text]
    ELSE NoCall

call(fn, a) ==
    /\ Begin(fn, a)
    /\ top' = [top EXCEPT !.prev = Previous(fn, a), !.actor = ""]
    /\ UNCHANGED <<max_retries, retry_delay, config, remote>>

create_branch_call ==
    /\ top.mode = "harness"
    /\ Finished
    /\ \E b \in {Develop} :
        call("create_branch", CreateBranchArgs(HarnessProject, b, "main"))

protect_branch_call ==
    /\ top.mode = "harness"
    /\ Finished
    /\ \E b \in {Develop, ReleasePattern}, role \in HarnessRoles, w \in BOOLEAN :
        call("protect_branch",
             ProtectBranchArgs(HarnessProject, b, config.access[role], config.access[role], w))

add_approval_rule_call ==
    /\ top.mode = "harness"
    /\ Finished
    /\ \E b \in {Develop, Staging} :
        call("add_approval_rule", AddApprovalRuleArgs(HarnessProject, b, GroupId, RuleName))

\* The functions of src/api are called one after the other, in any order and
\* with any arguments, against a remote that starts empty.
Init ==
    /\ max_retries \in 0..MaxRetries
    /\ retry_delay = DefaultRetryDelay
    /\ config = Configuration(<<>>, <<>>)
    /\ remote = [p \in Projects |-> EmptyProject]
    /\ ex = ExIdle
    /\ cl = ClIdle
    /\ calls = <<>>
    /\ top = TopIdle

Next ==
    \/ create_branch_call
    \/ protect_branch_call
    \/ add_approval_rule_call
    \/ Reconcile

Spec == Init /\ [][Next]_vars

\* Another actor on the remote.  Between the check of a function, which found
\* the resource absent, and the first attempt of its creation, the actor
\* creates a resource of the same name with attributes of its own.
ActorAttrs ==
    [NoAttrs EXCEPT !.ref = "main", !.push = DefaultAccess["owner"],
                    !.merge = DefaultAccess["owner"], !.unprotect = DefaultAccess["owner"],
                    !.approvals = ApprovalsRequired + 1]

other_actor ==
    /\ top.mode = "harness" /\ top.actor = ""
    /\ cl.fn \in {"create_branch", "protect_branch", "add_approval_rule"}
    /\ cl.pc = "create" /\ ex.pc = "loop" /\ ex.attempts = 0
    /\ calls # <<>>
    /\ ~Present(ex.req, remote[ex.req.project])
    /\ remote' = [remote EXCEPT ![ex.req.project] =
                      Applied([ex.req EXCEPT !.attrs = ActorAttrs], @)]
    /\ top' = [top EXCEPT !.actor = ex.req.name]
    /\ UNCHANGED <<max_retries, retry_delay, config, ex, cl, calls>>

\* MAX_RETRIES of the environment, "3" when it is not set.
DefaultMaxRetries == 3

\* The functions are called as in Init, by a client whose budget is at most
\* the default one, while the other actor works on the same remote.
RaceInit ==
    /\ max_retries \in 0..DefaultMaxRetries
    /\ retry_delay = DefaultRetryDelay
    /\ config = Configuration(<<>>, <<>>)
    /\ remote = [p \in Projects |-> EmptyProject]
    /\ ex = ExIdle
    /\ cl = ClIdle
    /\ calls = <<>>
    /\ top = TopIdle

RaceNext ==
    \/ Next
    \/ other_actor

RaceSpec == RaceInit /\ [][RaceNext]_vars

\* ------------------------------------------- the existence check, directly
\* src/api/branches.py branch_exists calls GitLabClient.branch_exists; the
\* value is the boolean, written as Python prints it.
True == "True"
False == "False"

\* GitLabClient.branch_exists, lines 79-83.
branch_exists_end(x) ==
    IF x.pc = "returned" THEN Returns(Result(True, <<>>))
    ELSE IF IsInstance(x.exc, "GitlabGetError") THEN Returns(Result(False, <<>>))
    ELSE Raises(x.exc)

\* Mutant: the wrapper has no except clause, the fault leaves it.
wrap_branch_exists_reraises(end) ==
    IF end.exc # NoFault THEN NoStatus ELSE Status(end.result.status, <<>>)

\* src/api/branches.py branch_exists, lines 17-25: the reason is the error
\* that is logged.
wrap_branch_exists(end) ==
    IF end.exc # NoFault THEN Status(False, end.exc.msg) ELSE Status(end.result.status, <<>>)

branch_exists_call ==
    /\ top.mode = "harness"
    /\ Finished
    /\ cl' = [ClIdle EXCEPT !.fn = "branch_exists", !.pc = "probe",
                            !.args = CreateBranchArgs(HarnessProject, Develop, "")]
    /\ ex' = Enter(GetBranchReq(CreateBranchArgs(HarnessProject, Develop, "")))
    /\ calls' = <<>>
    /\ top' = [top EXCEPT !.prev = NoCall, !.actor = ""]
    /\ UNCHANGED <<max_retries, retry_delay, config, remote>>

branch_exists_answer ==
    /\ cl.fn = "branch_exists" /\ cl.pc = "probe" /\ ExFinished
    /\ cl' = [cl EXCEPT !.pc = "done", !.result = branch_exists_end(ex).result,
                        !.exc = branch_exists_end(ex).exc,
                        !.status = wrap_branch_exists(branch_exists_end(ex))]
    /\ UNCHANGED <<max_retries, retry_delay, config, remote, ex, calls, top>>

\* protect_branch is called for a branch that a registered pattern matches.
protect_literal_call ==
    /\ top.mode = "harness"
    /\ Finished
    /\ \E role \in HarnessRoles :
        call("protect_branch",
             ProtectBranchArgs(HarnessProject, ReleaseBranch,
                               config.access[role], config.access[role], FALSE))

\* The project holds the branch or not, and the pattern's rule or not.
ProbeInit ==
    /\ max_retries \in 0..MaxRetries
    /\ retry_delay = DefaultRetryDelay
    /\ config = Configuration(<<>>, <<>>)
    /\ remote \in {[p \in Projects |-> IF p = HarnessProject THEN q ELSE EmptyProject] :
                      q \in {[EmptyProject EXCEPT !.branches = bs, !.protectedbranches = rs] :
                                bs \in SUBSET {Develop},
                                rs \in {{}, Applied(CreateProtectedReq(
                                            ProtectBranchArgs(HarnessProject, ReleasePattern,
                                                DefaultAccess["developer"],
                                                DefaultAccess["developer"], TRUE)),
                                            EmptyProject).protectedbranches}}}
    /\ ex = ExIdle
    /\ cl = ClIdle
    /\ calls = <<>>
    /\ top = TopIdle

ProbeNext ==
    \/ branch_exists_call
    \/ branch_exists_answer
    \/ protect_literal_call
    \/ is_branch_protected_return
    \/ protect_branch_return
    \/ with_retries
    \/ with_retries_exceeded

ProbeSpec == ProbeInit /\ [][ProbeNext]_vars

\* -------------------------------------------------------------- the driver
\* main(), lines 49-125.  The configuration is loaded, the group is the one of
\* the environment, and the user selects the projects in the menu.
NoneText == "-"
Dash == Status(NoneText, <<>>)

\* A tuple of results: (b_name, status, protection), (f"{b_name} approval",
\* "-", approval_status) or (pattern, "-", protection).
Entry(name, suffix, status, protection) ==
    [name |-> name, suffix |-> suffix, status |-> status, protection |-> protection]

Op(fn, name, status) == [op |-> fn, name |-> name, text |-> status.text]
Sleep == [op |-> "sleep", name |-> "", text |-> ""]

\* select_multiple_projects_from_menu: a selection that is not empty, in the
\* order of the listing.
Selections(listed) ==
    {sel \in {<<"p1">>, <<"p2">>, <<"p1", "p2">>} : \A i \in 1..Len(sel) : sel[i] \in listed}

project_id == Head(top.todo)
branch == config.core_branches[top.bi]
branch_config == config.wildcard_branches_config[top.wi]

\* A fault left the wrapper: it returned no status line.
Escaped(frame) == frame.pc = "done" /\ frame.status = NoStatus

\* except Exception as e: lines 123-125.  The run ends.
Abort(t, reason) == [t EXCEPT !.pc = "fatal", !.error = reason]

\* config.access[name] raises KeyError when name is no key of the map.
HasKey(name) == name \in DOMAIN config.access

\* A run of main() starts: get_projects(selected_group_id), line 58.
main_get_projects ==
    /\ top.mode = "driver"
    /\ top.pc \in {"idle", "finished", "fatal"}
    /\ top.run < MaxRuns
    /\ list_begin("get_projects")
    /\ top' = [TopIdle EXCEPT !.mode = "driver", !.pc = "get_projects", !.run = top.run + 1,
                              !.injected = top.injected, !.before = remote]
    /\ UNCHANGED <<max_retries, retry_delay, config, remote>>

\* Mutant: a failed listing is taken for the listing of every project.
main_select_projects_ignores_failure ==
    /\ top.mode = "driver"
    /\ top.pc = "get_projects" /\ cl.pc = "done"
    /\ \E sel \in Selections(IF cl.exc # NoFault THEN Projects ELSE cl.value) :
            top' = [top EXCEPT !.pc = "project", !.todo = sel, !.selected = sel]
    /\ UNCHANGED <<max_retries, retry_delay, config, remote, ex, cl, calls>>

\* Lines 58-63, and the except clause of line 123 when the listing failed.
main_select_projects ==
    /\ top.mode = "driver"
    /\ top.pc = "get_projects" /\ cl.pc = "done"
    /\ IF cl.exc # NoFault
       THEN top' = Abort(top, "get_projects")
       ELSE \E sel \in Selections(cl.value) :
                top' = [top EXCEPT !.pc = "project", !.todo = sel, !.selected = sel]
    /\ UNCHANGED <<max_retries, retry_delay, config, remote, ex, cl, calls>>

\* for project in projects_to_process: lines 65-69, and line 121 after the loop.
main_project ==
    /\ top.mode = "driver"
    /\ top.pc = "project"
    /\ top' = IF top.todo = <<>>
              THEN [top EXCEPT !.pc = "finished"]
              ELSE [top EXCEPT !.pc = "core", !.bi = 1, !.wi = 1, !.results = <<>>,
                               !.audit = <<>>, !.trace = <<>>]
    /\ UNCHANGED <<max_retries, retry_delay, config, remote, ex, cl, calls>>

\* for branch in config.core_branches: lines 72-75.
main_create_branch ==
    /\ top.mode = "driver"
    /\ top.pc = "core"
    /\ IF top.bi <= Len(config.core_branches)
       THEN /\ Begin("create_branch", CreateBranchArgs(project_id, branch.name, branch.ref))
            /\ top' = [top EXCEPT !.pc = "create_branch"]
       ELSE /\ top' = [top EXCEPT !.pc = "wildcards"]
            /\ UNCHANGED <<ex, cl, calls>>
    /\ UNCHANGED <<max_retries, retry_delay, config, remote>>

\* Mutant: a branch whose creation failed is neither protected nor given an
\* approval rule.
main_protect_branch_unless_failed ==
    /\ top.mode = "driver"
    /\ top.pc = "create_branch" /\ cl.pc = "done"
    /\ LET t == [top EXCEPT !.status = cl.status,
                            !.trace = Append(@, Op("create_branch", branch.name, cl.status))]
       IN IF Escaped(cl)
          THEN /\ top' = Abort(top, "create_branch")
               /\ UNCHANGED <<ex, cl, calls>>
          ELSE IF cl.status.text = "Error"
          THEN /\ top' = [t EXCEPT !.pc = "sleep"]
               /\ UNCHANGED <<ex, cl, calls>>
          ELSE /\ Begin("protect_branch",
                        ProtectBranchArgs(project_id, branch.name,
                                          config.access[branch.push_access_level],
                                          config.access[branch.merge_access_level], FALSE))
               /\ top' = [t EXCEPT !.pc = "protect_branch"]
    /\ UNCHANGED <<max_retries, retry_delay, config, remote>>

\* status is bound and protect_branch is called: lines 75-86.
main_protect_branch ==
    /\ top.mode = "driver"
    /\ top.pc = "create_branch" /\ cl.pc = "done"
    /\ LET t == [top EXCEPT !.status = cl.status,
                            !.trace = Append(@, Op("create_branch", branch.name, cl.status))]
       IN IF Escaped(cl)
          THEN /\ top' = Abort(top, "create_branch")
               /\ UNCHANGED <<ex, cl, calls>>
          ELSE IF ~(HasKey(branch.push_access_level) /\ HasKey(branch.merge_access_level))
          THEN /\ top' = Abort(t, "KeyError")
               /\ UNCHANGED <<ex, cl, calls>>
          ELSE /\ Begin("protect_branch",
                        ProtectBranchArgs(project_id, branch.name,
                                          config.access[branch.push_access_level],
                                          config.access[branch.merge_access_level], FALSE))
               /\ top' = [t EXCEPT !.pc = "protect_branch"]
    /\ UNCHANGED <<max_retries, retry_delay, config, remote>>

\* Mutant: approval_required is not looked at, no rule is added.
main_add_approval_rule_never ==
    /\ top.mode = "driver"
    /\ top.pc = "protect_branch" /\ cl.pc = "done"
    /\ top' = [top EXCEPT !.pc = "sleep",
                          !.results = Append(@, Entry(branch.name, "", top.status, cl.status)),
                          !.trace = Append(@, Op("protect_branch", branch.name, cl.status))]
    /\ UNCHANGED <<max_retries, retry_delay, config, remote, ex, cl, calls>>

\* protection is bound and recorded; add_approval_rule is called when the
\* branch requires approval: lines 82-94.
main_add_approval_rule ==
    /\ top.mode = "driver"
    /\ top.pc = "protect_branch" /\ cl.pc = "done"
    /\ LET t == [top EXCEPT !.results = Append(@, Entry(branch.name, "", top.status, cl.status)),
                            !.trace = Append(@, Op("protect_branch", branch.name, cl.status))]
       IN IF Escaped(cl)
          THEN /\ top' = Abort(top, "protect_branch")
               /\ UNCHANGED <<ex, cl, calls>>
          ELSE IF branch.approval_required
          THEN /\ Begin("add_approval_rule",
                        AddApprovalRuleArgs(project_id, branch.name, GroupId, RuleName))
               /\ top' = [t EXCEPT !.pc = "add_approval_rule"]
          ELSE /\ top' = [t EXCEPT !.pc = "sleep"]
               /\ UNCHANGED <<ex, cl, calls>>
    /\ UNCHANGED <<max_retries, retry_delay, config, remote>>

\* Mutant: the status of the approval rule is not added to the results.
main_approval_status_unrecorded ==
    /\ top.mode = "driver"
    /\ top.pc = "add_approval_rule" /\ cl.pc = "done"
    /\ top' = IF Escaped(cl)
              THEN Abort(top, "add_approval_rule")
              ELSE [top EXCEPT !.pc = "sleep",
                        !.trace = Append(@, Op("add_approval_rule", cl.args.rule_name, cl.status))]
    /\ UNCHANGED <<max_retries, retry_delay, config, remote, ex, cl, calls>>

\* approval_status is bound and recorded: lines 94-96.
main_approval_status ==
    /\ top.mode = "driver"
    /\ top.pc = "add_approval_rule" /\ cl.pc = "done"
    /\ top' = IF Escaped(cl)
              THEN Abort(top, "add_approval_rule")
              ELSE [top EXCEPT !.pc = "sleep",
                        !.results = Append(@, Entry(branch.name, "approval", Dash, cl.status)),
                        !.trace = Append(@, Op("add_approval_rule", cl.args.rule_name, cl.status))]
    /\ UNCHANGED <<max_retries, retry_delay, config, remote, ex, cl, calls>>

\* Mutant: the loop over the core branches has no delay.
main_sleep_skipped ==
    /\ top.mode = "driver"
    /\ top.pc = "sleep"
    /\ top' = [top EXCEPT !.pc = "core", !.bi = @ + 1]
    /\ UNCHANGED <<max_retries, retry_delay, config, remote, ex, cl, calls>>

\* time.sleep(0.5) at the end of the body of the loop: line 99.
main_sleep ==
    /\ top.mode = "driver"
    /\ top.pc = "sleep"
    /\ top' = [top EXCEPT !.pc = "core", !.bi = @ + 1, !.trace = Append(@, Sleep)]
    /\ UNCHANGED <<max_retries, retry_delay, config, remote, ex, cl, calls>>

\* for branch_config in config.wildcard_branches_config: lines 102-112.
main_protect_wildcard ==
    /\ top.mode = "driver"
    /\ top.pc = "wildcards"
    /\ IF top.wi > Len(config.wildcard_branches_config)
       THEN /\ top' = [top EXCEPT !.pc = "audit"]
            /\ UNCHANGED <<ex, cl, calls>>
       ELSE IF ~(HasKey(branch_config.push_access_level)
                   /\ HasKey(branch_config.merge_access_level))
       THEN /\ top' = Abort(top, "KeyError")
            /\ UNCHANGED <<ex, cl, calls>>
       ELSE /\ Begin("protect_branch",
                     ProtectBranchArgs(project_id, branch_config.pattern,
                                       config.access[branch_config.push_access_level],
                                       config.access[branch_config.merge_access_level], TRUE))
            /\ top' = [top EXCEPT !.pc = "protect_wildcard"]
    /\ UNCHANGED <<max_retries, retry_delay, config, remote>>

\* protection is bound and recorded, then time.sleep(0.5): lines 107-115.
main_wildcard_status ==
    /\ top.mode = "driver"
    /\ top.pc = "protect_wildcard" /\ cl.pc = "done"
    /\ top' = IF Escaped(cl)
              THEN Abort(top, "protect_branch")
              ELSE [top EXCEPT !.pc = "wildcards", !.wi = @ + 1,
                        !.results = Append(@, Entry(branch_config.pattern, "", Dash, cl.status)),
                        !.trace = Append(Append(@, Op("protect_branch", cl.args.name, cl.status)),
                                         Sleep)]
    /\ UNCHANGED <<max_retries, retry_delay, config, remote, ex, cl, calls>>

\* The status lines of the project are written: lines 118-119.
main_audit ==
    /\ top.mode = "driver"
    /\ top.pc = "audit"
    /\ top' = [top EXCEPT !.pc = "project", !.todo = Tail(@), !.audit = top.results,
                          !.processed = Append(@, project_id)]
    /\ UNCHANGED <<max_retries, retry_delay, config, remote, ex, cl, calls>>

\* The configurations the driver is run with.
EndToEndConfig ==
    Configuration(<<CoreBranch(Develop, "maintainer", "maintainer", TRUE)>>,
                  <<WildcardBranch(ReleasePattern, "developer", "developer")>>)

TwoBranchConfig ==
    Configuration(<<CoreBranch(Develop, "maintainer", "developer", FALSE),
                    CoreBranch(Staging, "maintainer", "maintainer", TRUE)>>,
                  <<>>)

\* main() is run up to MaxRuns times, with one configuration and one
\* environment, against a remote whose projects start empty.
DriverInit ==
    /\ max_retries \in 0..MaxRetries
    /\ retry_delay = DefaultRetryDelay
    /\ config \in {EndToEndConfig, TwoBranchConfig}
    /\ remote = [p \in Projects |-> EmptyProject]
    /\ ex = ExIdle
    /\ cl = ClIdle
    /\ calls = <<>>
    /\ top = [TopIdle EXCEPT !.mode = "driver"]

DriverNext ==
    \/ main_get_projects
    \/ list_return
    \/ main_select_projects
    \/ main_project
    \/ main_create_branch
    \/ main_protect_branch
    \/ main_add_approval_rule
    \/ main_approval_status
    \/ main_sleep
    \/ main_protect_wildcard
    \/ main_wildcard_status
    \/ main_audit
    \/ Reconcile

DriverSpec == DriverInit /\ [][DriverNext]_vars

\* The role names a configuration document can give: two roles of the map,
\* a name that is not in the map, null, the empty string, and no key.
DocumentRoles == {"maintainer", "developer", "admin", None, "", Omitted}

Documents ==
    {Configuration(<<CoreBranch(Develop, push, merge, TRUE)>>,
                   <<WildcardBranch(ReleasePattern, "developer", Omitted)>>) :
        push \in DocumentRoles, merge \in {"maintainer", None, Omitted}}
    \cup
    {Configuration(<<CoreBranch(Develop, Omitted, "maintainer", FALSE)>>,
                   <<WildcardBranch(ReleasePattern, push, "developer")>>) :
        push \in {None, "", "admin"}}

\* The configuration file: config_path.exists(), whether open and
\* yaml.safe_load succeed, and the document read.
ConfigPaths ==
    {[exists |-> e, readable |-> r, document |-> d] :
        e \in BOOLEAN, r \in BOOLEAN, d \in Documents}

\* load_branch_protection_config, from the path: the default configuration
\* when the file is missing (lines 126-134) or when reading it raises (lines
\* 135-142), the outcome of the validation otherwise.
load_from_config_path(f) ==
    IF ~f.exists THEN Configuration(<<>>, <<>>)
    ELSE IF ~f.readable THEN Configuration(<<>>, <<>>)
    ELSE load_branch_protection_config(f.document)

\* main() is run with the configuration loaded from a file.
ConfigInit ==
    /\ max_retries \in 0..DefaultMaxRetries
    /\ retry_delay = DefaultRetryDelay
    /\ config \in {load_from_config_path(f) : f \in ConfigPaths}
    /\ remote = [p \in Projects |-> EmptyProject]
    /\ ex = ExIdle
    /\ cl = ClIdle
    /\ calls = <<>>
    /\ top = [TopIdle EXCEPT !.mode = "driver"]

ConfigSpec == ConfigInit /\ [][DriverNext]_vars

\* ------------------------------------------------ properties: the executor
\* The classes of faults, as the claims name them (by the status the fault carries).
Is5xx(e) == IsInstance(e, "GitlabError") /\ e.has_code /\ 500 <= e.code /\ e.code < 600
Is4xx(e) == IsInstance(e, "GitlabError") /\ e.has_code /\ 400 <= e.code /\ e.code < 500
IsOtherStatus(e) == IsInstance(e, "GitlabError") /\ e.has_code /\ ~Is4xx(e) /\ ~Is5xx(e)
HasNoStatus(e) == IsInstance(e, "GitlabError") /\ ~e.has_code
IsForeign(e) == ~IsInstance(e, "GitlabError")

Backoff(k) == [i \in 1..k |-> retry_delay * (2 ^ (i - 1))]

\* C1: when the operation raised a 5xx fault on its first k invocations,
\* k < max_retries, the executor has not given up; when it then succeeds the
\* executor returns the operation's value after exactly k+1 invocations and
\* exactly k sleeps of base_delay*2^0, ..., base_delay*2^(k-1).
C1_ServerFaultBackoff ==
    LET k == Len(ex.hist) IN
    (ex.pc # "idle" /\ k < max_retries /\ \A i \in 1..k : Is5xx(ex.hist[i])) =>
        /\ ex.pc \in {"loop", "returned"}
        /\ ex.sleeps = Backoff(k)
        /\ ex.pc = "returned" =>
              /\ ex.attempts = k + 1
              /\ ex.value = Nominal(ex.req, ProjectOf(ex.req)).value

C1_Witness ==
    /\ ex.pc = "returned"
    /\ Len(ex.hist) = 2 /\ Is5xx(ex.hist[1]) /\ Is5xx(ex.hist[2])
    /\ retry_delay = 2 /\ ex.sleeps = <<2, 4>> /\ ex.attempts = 3

\* C2: a fault with status in 400..499 is always the last invocation of the
\* executor's activation: the executor has raised that same fault, no sleep
\* followed it and no invocation came after it, whatever budget remains.
C2_ClientFaultFailFast ==
    /\ \A i \in 1..Len(ex.hist) : Is4xx(ex.hist[i]) => i = Len(ex.hist)
    /\ (ex.hist # <<>> /\ Is4xx(Last(ex.hist))) =>
          /\ ex.pc = "raised"
          /\ ex.exc = Last(ex.hist)
          /\ ex.attempts = Len(ex.hist)
          /\ Len(ex.sleeps) = Len(ex.hist) - 1

C2_Witness ==
    /\ ex.pc = "raised" /\ Len(ex.hist) = 2 /\ Is4xx(ex.hist[2]) /\ ~Is4xx(ex.hist[1])
    /\ ex.hist[2].code = 409
    /\ ex.retries + 1 < max_retries

\* C3: with max_retries >= 1 and a retryable fault (5xx, other status or no
\* status) on every invocation, the executor invokes the operation exactly
\* max_retries times, sleeps exactly max_retries - 1 times and raises the
\* fault of the last invocation.
IsRetryable(e) == Is5xx(e) \/ IsOtherStatus(e) \/ HasNoStatus(e)

C4_Original ==
    \A i \in 1..Len(ex.hist) :
        (~Is4xx(ex.hist[i]) /\ ~Is5xx(ex.hist[i])) =>
            IF i < max_retries
            THEN Len(ex.sleeps) >= i /\ ex.sleeps[i] = retry_delay
            ELSE ex.pc = "raised" /\ ex.exc = ex.hist[i] /\ ex.retries = max_retries

\* C4, amended: a GitlabError whose status is a number outside 400..599 is
\* retried with the fixed delay base_delay and uses one retry of the budget
\* 5xx faults use; a GitlabError without a response_code attribute is given
\* status 500 and follows the exponential backoff; an exception that is not a
\* GitlabError is not caught: it propagates at once, without retry or sleep.
C4_UnclassifiedFaults ==
    \A i \in 1..Len(ex.hist) :
        LET e == ex.hist[i] IN
        /\ IsOtherStatus(e) =>
              /\ ex.retries >= i
              /\ IF i < max_retries
                 THEN Len(ex.sleeps) >= i /\ ex.sleeps[i] = retry_delay
                 ELSE ex.pc = "raised" /\ ex.exc = e /\ ex.retries = max_retries
                      /\ Len(ex.sleeps) = i - 1
        /\ HasNoStatus(e) =>
              /\ ex.retries >= i
              /\ IF i < max_retries
                 THEN Len(ex.sleeps) >= i /\ ex.sleeps[i] = retry_delay * (2 ^ (i - 1))
                 ELSE ex.pc = "raised" /\ ex.exc = e /\ ex.retries = max_retries
        /\ IsForeign(e) =>
              /\ i = Len(ex.hist) /\ ex.pc = "raised" /\ ex.exc = e
              /\ ex.retries = i - 1 /\ Len(ex.sleeps) = i - 1

C4_Witness ==
    /\ Len(ex.hist) = 3 /\ max_retries = 4 /\ retry_delay = 2
    /\ Is5xx(ex.hist[1]) /\ IsOtherStatus(ex.hist[2]) /\ HasNoStatus(ex.hist[3])
    /\ ex.sleeps = <<2, 2, 8>>

\* ------------------------------------------ properties: the reconciliation
IsCreated(text) == text \in {"Created", "Protected", "Approval rule added"}
IsAlready(text) ==
    text \in {"Already exists", "Already protected", "Approval rule already exists"}

AlreadyOf(fn) ==
    CASE fn = "create_branch" -> "Already exists"
      [] fn = "protect_branch" -> "Already protected"
      [] OTHER -> "Approval rule already exists"

Sent(api) == \E i \in 1..Len(calls) : calls[i].api = api

\* An activation of the executor ended on an injected fault: the fault was
\* the last answer to its operation.
FaultSurfaced ==
    \E i \in 1..Len(calls) :
        /\ calls[i].outcome = "fault"
        /\ i = Len(calls) \/ calls[i + 1].api # calls[i].api

\* The call that has returned repeats, with identical arguments, the call
\* before it, which returned the created status.
Repeated ==
    /\ cl.pc = "done" /\ top.prev # NoCall
    /\ top.prev.fn = cl.fn /\ top.prev.args = cl.args
    /\ IsCreated(top.prev.text)

C6_ProtectionPreCheck ==
    (cl.fn = "protect_branch" /\ ~cl.args.wildcard /\ cl.pc \in {"create", "done"}
        /\ Sent("listProtectedBranches") /\ cl.args.name \in cl.value) =>
        /\ cl.pc = "done"
        /\ cl.status.text = "Already protected"
        /\ ~Sent("createProtectedBranch")

C6_Witness ==
    /\ cl.fn = "protect_branch" /\ ~cl.args.wildcard /\ cl.pc = "done"
    /\ cl.args.name \in cl.value /\ cl.status.text = "Already protected"
    /\ Len(calls) = 1 /\ calls[1].api = "listProtectedBranches" /\ calls[1].outcome = "ok"

\* C7, as claimed: every call of protect_branch with wildcard = true sends at
\* least one createProtectedBranch request and no listProtectedBranches request.
C7_Original ==
    (cl.fn = "protect_branch" /\ cl.args.wildcard /\ cl.pc = "done") =>
        Sent("createProtectedBranch") /\ ~Sent("listProtectedBranches")

\* C7, amended: it sends no listProtectedBranches request, and at least one
\* createProtectedBranch request when max_retries >= 1 (with max_retries <= 0
\* the executor invokes nothing and the call returns Failed).
C7_WildcardAlwaysCreates ==
    (cl.fn = "protect_branch" /\ cl.args.wildcard) =>
        /\ ~Sent("listProtectedBranches")
        /\ (cl.pc = "done" /\ max_retries >= 1) => Sent("createProtectedBranch")
        /\ (cl.pc = "done" /\ max_retries <= 0) =>
              /\ Len(calls) = 0
              /\ cl.status.text = "Protect error" /\ cl.status.reason = MsgMaxRetries

C7_Witness ==
    /\ cl.fn = "protect_branch" /\ cl.args.wildcard /\ cl.pc = "done"
    /\ max_retries >= 1
    /\ ReleasePattern \in RuleNames(remote[HarnessProject].protectedbranches)
    /\ Len(calls) = 1 /\ calls[1].api = "createProtectedBranch"
    /\ calls[1].outcome = "rejected"
    /\ cl.status.text = "Already protected"

\* The call that has returned is add_approval_rule with the rule name of the
\* add_approval_rule call before it, which returned Created, and another
\* branch name.
Collision ==
    /\ cl.pc = "done" /\ cl.fn = "add_approval_rule" /\ top.prev # NoCall
    /\ top.prev.fn = "add_approval_rule"
    /\ top.prev.args.project = cl.args.project
    /\ top.prev.args.rule_name = cl.args.rule_name
    /\ top.prev.args.name # cl.args.name
    /\ top.prev.text = "Approval rule added"

RulesNamed(project, name) == {r \in remote[project].approvalrules : r.name = name}

Processing ==
    top.pc \in {"core", "create_branch", "protect_branch", "add_approval_rule", "sleep",
                "wildcards", "protect_wildcard", "audit"}

\* The reconciliation operations of the project so far, with their outcomes.
IsOp(e) == e.op # "sleep"
Ops(trace) == SelectSeq(trace, IsOp)

IsPrefix(s, t) == Len(s) <= Len(t) /\ s = SubSeq(t, 1, Len(s))

\* The project the end-to-end configuration leaves behind.
EndToEndProject ==
    [branches |-> {Develop},
     protectedbranches |->
        {[name |-> Develop, push |-> 40, merge |-> 40, unprotect |-> 40,
          force |-> FALSE, codeowner |-> FALSE],
         [name |-> ReleasePattern, push |-> 30, merge |-> 30, unprotect |-> 40,
          force |-> FALSE, codeowner |-> FALSE]},
     approvalrules |-> {[name |-> RuleName, approvals |-> 1, group |-> GroupId]}]

ExpectedFirstRun ==
    <<Op("create_branch", Develop, StatusCreated),
      Op("protect_branch", Develop, StatusProtected),
      Op("add_approval_rule", RuleName, StatusRuleAdded),
      Op("protect_branch", ReleasePattern, StatusProtected)>>

ExpectedReRun ==
    <<Op("create_branch", Develop, StatusAlreadyExists),
      Op("protect_branch", Develop, StatusAlreadyProtected),
      Op("add_approval_rule", RuleName, StatusRuleAlreadyExists),
      Op("protect_branch", ReleasePattern, StatusAlreadyProtected)>>

\* The run is made with the end-to-end configuration and no fault has been
\* injected in it.
FaultFreeRun ==
    /\ top.mode = "driver" /\ top.pc # "idle"
    /\ config = EndToEndConfig
    /\ top.faults = 0

\* The project being processed had none of the resources when the run started.
OnEmptyProject == Processing /\ top.before[project_id] = EmptyProject

\* C9, as claimed: a fault-free run with the end-to-end configuration
\* processes a project where neither resource exists by create_branch(develop)
\* -> Created, protect_branch(develop) -> Protected, add_approval_rule ->
\* Created, protect_branch(release/*, wildcard) -> Protected, in this order.
C9_Original ==
    FaultFreeRun =>
        /\ top.pc # "fatal"
        /\ OnEmptyProject =>
              /\ IsPrefix(Ops(top.trace), ExpectedFirstRun)
              /\ top.pc = "audit" => Ops(top.trace) = ExpectedFirstRun

\* C9, amended: it does so when max_retries >= 1; with max_retries <= 0 the
\* listing of the projects fails and the run ends without any operation.
C9_FirstRun ==
    FaultFreeRun =>
        /\ max_retries >= 1 =>
              /\ top.pc # "fatal"
              /\ OnEmptyProject =>
                    /\ IsPrefix(Ops(top.trace), ExpectedFirstRun)
                    /\ top.pc = "audit" =>
                          /\ Ops(top.trace) = ExpectedFirstRun
                          /\ remote[project_id] = EndToEndProject
        /\ max_retries <= 0 => top.pc \in {"get_projects", "fatal"} /\ top.trace = <<>>

C9_Witness ==
    /\ FaultFreeRun /\ OnEmptyProject /\ top.pc = "audit" /\ top.run = 1
    /\ max_retries >= 1
    /\ Ops(top.trace) = ExpectedFirstRun
    /\ remote[project_id] = EndToEndProject

\* The project being processed was, when the run started, as the first run
\* leaves it.
OnReconciledProject == Processing /\ top.before[project_id] = EndToEndProject

\* C10: a fault-free run with the end-to-end configuration on the project the
\* first run left yields, in order, Already exists, Already protected (by the
\* listing alone), Approval rule already exists and, for the wildcard, one
\* createProtectedBranch request that the remote rejects and that is reported
\* as Already protected; the remote stays as the first run left it.
C10_ReRun ==
    (FaultFreeRun /\ OnReconciledProject) =>
        /\ IsPrefix(Ops(top.trace), ExpectedReRun)
        /\ top.pc = "audit" => Ops(top.trace) = ExpectedReRun
        /\ remote[project_id] = top.before[project_id]
        /\ (top.pc = "protect_branch" /\ cl.pc = "done") =>
              /\ Len(calls) = 1 /\ calls[1].api = "listProtectedBranches"
        /\ (top.pc = "protect_wildcard" /\ cl.pc = "done") =>
              /\ Len(calls) = 1 /\ calls[1].api = "createProtectedBranch"
              /\ calls[1].outcome = "rejected"
              /\ cl.result.status = "already_protected"

C10_Witness ==
    /\ FaultFreeRun /\ OnReconciledProject /\ top.pc = "audit"
    /\ top.run = 2 /\ top.injected = 0
    /\ Ops(top.trace) = ExpectedReRun
    /\ remote = top.before

\* What the configuration asks for on one project: the calls of the loops
\* over core_branches and wildcard_branches_config, in order.
PlannedCall(fn, name) == [op |-> fn, name |-> name]

BranchPlan(b) ==
    <<PlannedCall("create_branch", b.name), PlannedCall("protect_branch", b.name)>>
    \o (IF b.approval_required THEN <<PlannedCall("add_approval_rule", RuleName)>> ELSE <<>>)

RECURSIVE CorePlan(_)
CorePlan(bs) == IF bs = <<>> THEN <<>> ELSE BranchPlan(Head(bs)) \o CorePlan(Tail(bs))

WildcardPlan ==
    [i \in 1..Len(config.wildcard_branches_config) |->
        PlannedCall("protect_branch", config.wildcard_branches_config[i].pattern)]

Plan == CorePlan(config.core_branches) \o WildcardPlan

\* The calls made for the project so far, without their outcomes.
Made(trace) == [i \in 1..Len(Ops(trace)) |-> PlannedCall(Ops(trace)[i].op, Ops(trace)[i].name)]

Running == top.pc \notin {"idle", "finished", "fatal"}

\* C11: whatever faults the remote injects during the reconciliation calls,
\* the run is aborted by the listing of the projects only; the calls made for
\* a project are those the configuration asks for, all of them once its
\* status lines are written, whatever their outcomes; the driver goes on
\* while the run is not over, and a run that finishes has processed every
\* selected project.
C11_FailureIsolation ==
    top.mode = "driver" =>
        /\ top.pc = "fatal" => top.error = "get_projects" /\ top.selected = <<>>
        /\ Running => ENABLED DriverNext
        /\ Processing =>
              /\ IsPrefix(Made(top.trace), Plan)
              /\ top.processed \o top.todo = top.selected
        /\ top.pc = "audit" => Made(top.trace) = Plan
        /\ top.pc = "finished" => top.processed = top.selected /\ top.selected # <<>>

C11_Witness ==
    /\ top.mode = "driver" /\ top.pc = "audit" /\ config = EndToEndConfig
    /\ top.selected = <<"p1", "p2">> /\ top.processed = <<"p1">> /\ project_id = "p2"
    /\ top.faults = 1
    /\ remote["p1"].branches = {}
    /\ Cardinality(remote["p1"].protectedbranches) = 2
    /\ Cardinality(remote["p1"].approvalrules) = 1
    /\ Made(top.trace) = Plan

\* ------------------------------- properties: the outcomes of reconciliation
Reconcilers == {"create_branch", "protect_branch", "add_approval_rule"}

CreatedOf(fn) ==
    CASE fn = "create_branch" -> "Created"
      [] fn = "protect_branch" -> "Protected"
      [] OTHER -> "Approval rule added"

FailedOf(fn) ==
    CASE fn = "create_branch" -> "Error"
      [] fn = "protect_branch" -> "Protect error"
      [] OTHER -> "Approval rule error"

\* C12: a call of create_branch, protect_branch or add_approval_rule is never
\* stuck and sends at most 2 * max_retries requests; once it has returned, no
\* fault has left the wrapper and its status is exactly one of created,
\* already and Failed, Failed carrying the reason (the message of the fault
\* or of the error dictionary) and being returned exactly when a fault left
\* the client function or its dictionary says error.
C12_Total ==
    cl.fn \in Reconcilers =>
        /\ Len(calls) <= 2 * max_retries
        /\ cl.pc # "done" => ENABLED Reconcile
        /\ cl.pc = "done" =>
              /\ ~Escaped(cl)
              /\ cl.status.text \in {CreatedOf(cl.fn), AlreadyOf(cl.fn), FailedOf(cl.fn)}
              /\ cl.status.text = FailedOf(cl.fn) <=>
                    (cl.exc # NoFault \/ cl.result.status = "error")
              /\ cl.status.text = FailedOf(cl.fn) =>
                    /\ cl.status.reason # <<>>
                    /\ cl.status.reason = IF cl.exc # NoFault THEN cl.exc.msg
                                          ELSE cl.result.message
              /\ cl.status.text # FailedOf(cl.fn) => cl.status.reason = <<>>

C12_Witness ==
    /\ cl.fn = "create_branch" /\ cl.pc = "done" /\ max_retries = 2
    /\ cl.status.text = "Error" /\ cl.status.reason = MsgServerError
    /\ Len(calls) = 4
    /\ \A i \in 1..4 : calls[i].outcome = "fault"
    /\ calls[2].api = "getBranch" /\ calls[3].api = "createBranch"

\* The message holds none of the three texts the except clauses look for.
NoBenignText(msg) ==
    /\ ~Contains(msg, TextAlreadyExists)
    /\ ~Contains(msg, TextAlreadyBeenProtected)
    /\ ~Contains(msg, TextAlreadyBeenTaken)

Requests(api) == {i \in 1..Len(calls) : calls[i].api = api}

\* The call has returned after its creation request was answered by a fault.
CreationRaised ==
    /\ cl.fn \in Reconcilers /\ cl.pc = "done"
    /\ IsCreate(ex.req.api) /\ ex.pc = "raised" /\ ex.hist # <<>>

\* C13: when the creation request of create_branch, protect_branch or
\* add_approval_rule is answered by a 4xx fault whose message holds none of
\* the benign texts, that answer is the last one (no sleep and no invocation
\* follow it), the creation request was sent exactly once when it is the
\* first answer, and the function returns Failed with the message of the fault.
C13_ClientFaultOnCreation ==
    (CreationRaised /\ Is4xx(ex.exc) /\ NoBenignText(ex.exc.msg)) =>
        /\ ex.exc = Last(ex.hist)
        /\ ex.attempts = Len(ex.hist)
        /\ Len(ex.sleeps) = Len(ex.hist) - 1
        /\ Is4xx(ex.hist[1]) =>
              /\ Cardinality(Requests(ex.req.api)) = 1
              /\ ex.sleeps = <<>>
        /\ cl.status.text = FailedOf(cl.fn)
        /\ cl.status.reason = ex.exc.msg

C13_Witness ==
    /\ CreationRaised /\ cl.fn = "protect_branch" /\ ~cl.args.wildcard
    /\ max_retries >= 3
    /\ Len(calls) = 2
    /\ calls[1].api = "listProtectedBranches" /\ calls[1].outcome = "ok"
    /\ calls[2].api = "createProtectedBranch" /\ calls[2].outcome = "fault"
    /\ ex.exc.code = 403 /\ ex.sleeps = <<>>
    /\ cl.status.text = "Protect error" /\ cl.status.reason = MsgForbidden

\* The text the except clause of the function looks for.
BenignTextOf(fn) ==
    CASE fn = "create_branch" -> TextAlreadyExists
      [] fn = "protect_branch" -> TextAlreadyBeenProtected
      [] OTHER -> TextAlreadyBeenTaken

\* C14, as claimed: when the creation request fails because the resource
\* exists, which the fault signals by the benign text or by status 409, the
\* function returns the already status, never Failed.
C14_IdempotencyCollision ==
    (/\ CreationRaised
     /\ Present(ex.req, remote[ex.req.project])
     /\ \/ Contains(ex.exc.msg, BenignTextOf(cl.fn))
        \/ (ex.exc.has_code /\ ex.exc.code = 409)) =>
        cl.status.text = AlreadyOf(cl.fn)

ProbeApiOf(fn) ==
    CASE fn = "create_branch" -> "getBranch"
      [] fn = "protect_branch" -> "listProtectedBranches"
      [] OTHER -> "listApprovalRules"

CreateApiOf(fn) ==
    CASE fn = "create_branch" -> "createBranch"
      [] fn = "protect_branch" -> "createProtectedBranch"
      [] OTHER -> "createApprovalRule"

\* C15, as claimed: when the existence probe inside create_branch, inside
\* protect_branch (wildcard false) or inside add_approval_rule ends on a fault
\* (here: a 5xx fault that exhausts the retry budget), the function goes on to
\* send its creation request.
C15_ProbeFaultDegraded ==
    (/\ cl.fn \in Reconcilers /\ cl.pc = "done"
     /\ Sent(ProbeApiOf(cl.fn))
     /\ \E i \in Requests(ProbeApiOf(cl.fn)) :
            /\ calls[i].outcome = "fault"
            /\ i = Len(calls) \/ calls[i + 1].api # ProbeApiOf(cl.fn)
     /\ \A i \in Requests(ProbeApiOf(cl.fn)) : calls[i].outcome = "fault"
     /\ ex.req.api = ProbeApiOf(cl.fn) => Is5xx(ex.exc)) =>
        Sent(CreateApiOf(cl.fn))

Kept(before, after) ==
    /\ before.branches \subseteq after.branches
    /\ before.protectedbranches \subseteq after.protectedbranches
    /\ before.approvalrules \subseteq after.approvalrules

OneOfEachName(rules) == \A r, q \in rules : r.name = q.name => r = q

\* C16: no step removes or changes a resource of the remote: every branch,
\* protection rule and approval rule on a project before a step is on it with
\* the same attributes after the step, and no second rule of a name is added
\* beside the first; a protection rule whose levels differ from the ones asked
\* for stays as it is.
C16_NoDeletionOrEdit ==
    [][\A p \in Projects :
          /\ Kept(remote[p], remote'[p])
          /\ OneOfEachName(remote'[p].protectedbranches)
          /\ OneOfEachName(remote'[p].approvalrules)]_vars

\* protect_branch has returned for a branch whose rule carries other levels.
C16_Witness ==
    /\ cl.fn = "protect_branch" /\ cl.pc = "done"
    /\ cl.status.text = AlreadyOf(cl.fn)
    /\ \E r \in remote[cl.args.project].protectedbranches :
          r.name = cl.args.name /\ r.push # cl.args.push /\ r.merge # cl.args.merge

\* get_projects has raised into main.
ListingRaised ==
    /\ top.mode = "driver" /\ top.pc = "get_projects"
    /\ cl.pc = "done" /\ cl.exc # NoFault

ListingWasFatal ==
    top.mode = "driver" /\ top.pc = "fatal" /\ top.error = "get_projects"

\* C17: when the listing of the group's projects surfaces a fault, the next
\* step of main is its except clause and the run is over: the only requests
\* of the run are listings of the projects, no function of src/api was called
\* on a project, the remote is as it was when the run began, and nothing
\* happens after it but a new invocation of the program.
C17_FatalListing ==
    /\ []((ListingRaised \/ ListingWasFatal) =>
            /\ \A i \in 1..Len(calls) : calls[i].api = "listProjects"
            /\ top.trace = <<>> /\ top.selected = <<>> /\ top.processed = <<>>
            /\ remote = top.before
            /\ cl.fn = "get_projects")
    /\ [][/\ ListingRaised => ListingWasFatal'
          /\ ListingWasFatal => top'.run = top.run + 1 /\ top'.pc = "get_projects"]_vars

\* A listing of the second run was answered with a fault and ended the run.
C17_Witness ==
    /\ ListingWasFatal
    /\ calls # <<>> /\ calls[Len(calls)].outcome = "fault"
    /\ top.run = 2
    /\ remote # [p \in Projects |-> EmptyProject]

\* main is about to look up the role names of the core branch / the pattern.
CoreLookup ==
    top.mode = "driver" /\ top.pc = "create_branch" /\ cl.pc = "done" /\ ~Escaped(cl)

WildcardLookup ==
    /\ top.mode = "driver" /\ top.pc = "wildcards"
    /\ top.wi \in DOMAIN config.wildcard_branches_config

\* C18, as claimed: whatever document the configuration was loaded from, each
\* role name main looks up in config.access is a key of it, and no run ends
\* on a failed lookup.
C18_RoleLookups ==
    /\ CoreLookup =>
          HasKey(branch.push_access_level) /\ HasKey(branch.merge_access_level)
    /\ WildcardLookup =>
          HasKey(branch_config.push_access_level) /\ HasKey(branch_config.merge_access_level)
    /\ top.error # "KeyError"

\* The check inside create_branch was answered with the branch.
ProbeFoundBranch ==
    /\ cl.fn = "create_branch"
    /\ \E i \in Requests("getBranch") : calls[i].outcome = "ok"

\* C19: when the existence check inside create_branch finds the branch,
\* create_branch sends no createBranch request and returns "Already exists".
C19_ReCheck ==
    ProbeFoundBranch =>
        /\ ~Sent("createBranch")
        /\ cl.pc \in {"probe", "done"}
        /\ cl.pc = "probe" => ENABLED branch_exists_return
        /\ cl.pc = "done" =>
              /\ cl.status.text = AlreadyOf(cl.fn) /\ cl.status.reason = <<>>
              /\ cl.args.name \in remote[cl.args.project].branches

\* The check was answered with the branch after a fault, and the call is over.
C19_Witness ==
    /\ ProbeFoundBranch /\ cl.pc = "done"
    /\ Cardinality(Requests("getBranch")) > 1

\* Another actor created the resource between the check and the creation.
Raced == top.actor # "" /\ cl.fn \in Reconcilers

\* C20: when the check of create_branch, protect_branch or add_approval_rule
\* found the resource absent and another actor created it before the creation
\* request reached the remote, a rejection of the creation whose message
\* carries the text of the function ("already exists", "already been
\* protected", "has already been taken") is returned as the already status,
\* and the remote holds one resource of the name, the actor's.
C20_CheckThenActRace ==
    Raced =>
        /\ top.actor = ex.req.name /\ IsCreate(ex.req.api)
        /\ Present(ex.req, remote[ex.req.project])
        /\ Applied([ex.req EXCEPT !.attrs = ActorAttrs], remote[ex.req.project])
              = remote[ex.req.project]
        /\ OneOfEachName(remote[ex.req.project].protectedbranches)
        /\ OneOfEachName(remote[ex.req.project].approvalrules)
        /\ ex.pc # "returned"
        /\ (CreationRaised /\ Contains(ex.exc.msg, BenignTextOf(cl.fn))) =>
              cl.status.text = AlreadyOf(cl.fn)

\* The creation lost the race, was retried after a fault, and was rejected.
C20_Witness ==
    /\ Raced /\ CreationRaised
    /\ Len(ex.hist) > 1
    /\ calls[Len(calls)].outcome = "rejected"
    /\ cl.status.text = AlreadyOf(cl.fn)

\* ------------------------------------------------- properties: the checks
NotFound(e) == IsInstance(e, "GitlabGetError") /\ e.has_code /\ e.code = 404

\* C21: branch_exists always returns a boolean.  It is True exactly when the
\* get by name succeeded within the executor's budget; a not-found fault is
\* not retried (met on the first invocation, it is the only get) and gives
\* False; every other fault the executor surfaces, of any class, the generic
\* fault of an empty budget included, gives False too and does not leave the
\* function.
C21_TotalProbe ==
    cl.fn = "branch_exists" =>
        /\ Len(calls) <= max_retries
        /\ \A i \in 1..Len(calls) : calls[i].api = "getBranch"
        /\ cl.pc = "probe" => ENABLED (with_retries \/ with_retries_exceeded \/ branch_exists_answer)
        /\ cl.pc = "done" =>
              /\ cl.status.text \in {True, False}
              /\ cl.status.text = True <=>
                    (ex.pc = "returned" /\ calls # <<>> /\ Last(calls).outcome = "ok")
              /\ cl.status.text = True => Develop \in remote[HarnessProject].branches
              /\ (ex.pc = "raised" /\ NotFound(ex.exc)) =>
                    /\ cl.status = Status(False, <<>>)
                    /\ ex.exc = Last(ex.hist)
                    /\ NotFound(ex.hist[1]) => Len(calls) = 1 /\ ex.sleeps = <<>>
              /\ ex.pc = "raised" => cl.status.text = False

\* A transport fault after a retried fault was caught by the wrapper.
C21_Witness ==
    /\ cl.fn = "branch_exists" /\ cl.pc = "done"
    /\ cl.exc # NoFault /\ IsForeign(cl.exc)
    /\ Len(ex.hist) > 1
    /\ cl.status.text = False

\* The listing inside protect_branch was answered.
Listed ==
    /\ cl.fn = "protect_branch" /\ ~cl.args.wildcard
    /\ \E i \in Requests("listProtectedBranches") : calls[i].outcome = "ok"

\* C22: the check inside protect_branch compares names for equality.  The
\* branch counts as protected iff a listed rule carries exactly its name; a
\* listed pattern that matches the name does not count, and protect_branch
\* goes on to the creation request for the name.
C22_ExactNameOnly ==
    Listed =>
        /\ cl.pc = "done" =>
              (cl.args.name \in cl.value <=>
                    (cl.result.status = "already_protected" /\ ~Sent("createProtectedBranch")))
        /\ (cl.args.name \notin cl.value /\ cl.pc = "done") => Sent("createProtectedBranch")
        /\ cl.pc = "probe" => ex.pc = "returned" /\ ENABLED is_branch_protected_return
        /\ (cl.args.name \notin cl.value /\ cl.pc \notin {"probe", "done"}) =>
              cl.pc = "create" /\ ex.req = CreateProtectedReq(cl.args)

\* The branch was protected although the pattern's rule, which matches it, was listed.
C22_Witness ==
    /\ Listed /\ cl.pc = "done"
    /\ cl.args.name = ReleaseBranch
    /\ ReleasePattern \in cl.value /\ Matches(ReleasePattern, cl.args.name)
    /\ cl.status.text = "Protected"
    /\ {ReleasePattern, ReleaseBranch} \subseteq RuleNames(remote[cl.args.project].protectedbranches)

\* ------------------------------------- properties: the executor, continued
\* C23: a fault the executor raises after at least one invocation is the
\* fault of the last invocation; the generic "Max retries exceeded" fault is
\* raised exactly when max_retries <= 0, and then the operation was never
\* invoked.
C23_SurfacedFault ==
    /\ (ex.pc = "raised" /\ ex.attempts >= 1) =>
          /\ ex.hist # <<>> /\ ex.exc = Last(ex.hist)
          /\ ex.exc # MaxRetriesExceeded
          /\ max_retries >= 1
    /\ (ex.pc = "raised" /\ ex.attempts = 0) =>
          ex.exc = MaxRetriesExceeded /\ max_retries <= 0
    /\ (max_retries <= 0 /\ ex.pc # "idle") =>
          /\ ex.attempts = 0 /\ calls = <<>> /\ ex.hist = <<>>
          /\ ex.pc \in {"loop", "raised"}
          /\ ex.pc = "loop" => ENABLED with_retries_exceeded /\ ~ENABLED with_retries
    /\ max_retries >= 1 => ~ENABLED with_retries_exceeded

\* The budget was used up by retried faults and the last one was raised.
C23_Witness ==
    /\ ex.pc = "raised" /\ max_retries = 3 /\ ex.attempts = 3
    /\ ex.exc = ex.hist[3] /\ ex.hist[3] # ex.hist[2]
    /\ ex.retries = max_retries

Count(seq, x) == Cardinality({i \in DOMAIN seq : seq[i] = x})

IsLevel(x) == x \in {"debug", "info", "warning", "error"}

\* The executor gave up because the budget was used up.
Exhausted ==
    /\ ex.pc = "raised"
    /\ \/ ex.exc = MaxRetriesExceeded
       \/ ex.hist # <<>> /\ IsRetryable(Last(ex.hist)) /\ ex.retries >= max_retries

\* C26: in every activation of the executor there are as many warning lines
\* as sleeps, each warning directly before its sleep and after a failed
\* invocation; one error line is logged iff the executor gave up on an
\* exhausted budget, and none otherwise; a 4xx fault adds one line, at debug
\* level for 409 and at info level otherwise, and neither a warning nor an
\* error.
C26_Logging ==
    ex.pc # "idle" =>
        /\ SelectSeq(ex.events, IsLevel) = ex.log
        /\ Count(ex.events, "operation") = ex.attempts
        /\ Count(ex.log, "warning") = Len(ex.sleeps)
        /\ Count(ex.events, "sleep") = Len(ex.sleeps)
        /\ \A i \in DOMAIN ex.events :
              /\ ex.events[i] = "warning" =>
                    /\ i > 1 /\ ex.events[i - 1] = "operation"
                    /\ i < Len(ex.events) /\ ex.events[i + 1] = "sleep"
              /\ ex.events[i] = "sleep" => i > 1 /\ ex.events[i - 1] = "warning"
              /\ ex.events[i] \in {"error", "debug", "info"} => i = Len(ex.events)
        /\ Count(ex.log, "error") = (IF Exhausted THEN 1 ELSE 0)
        /\ Count(ex.log, "debug") + Count(ex.log, "info") =
              (IF ex.hist # <<>> /\ Is4xx(Last(ex.hist)) THEN 1 ELSE 0)
        /\ (ex.hist # <<>> /\ Is4xx(Last(ex.hist))) =>
              /\ Last(ex.log) = (IF Last(ex.hist).code = 409 THEN "debug" ELSE "info")
              /\ Count(ex.log, "warning") = Len(ex.hist) - 1
              /\ Count(ex.log, "error") = 0

\* Two retries were logged and slept, then a conflict was logged at debug level.
C26_Witness ==
    /\ ex.pc = "raised"
    /\ ex.events = <<"operation", "warning", "sleep", "operation", "warning", "sleep",
                     "operation", "debug">>

Retried(e) == IsInstance(e, "GitlabError") /\ ~Is4xx(e)

\* C29: with max_retries >= 1 and whatever the operation answers, the
\* executor invokes the operation at least once and at most max_retries times
\* and then returns or raises; every retried fault, of whatever class, draws
\* on the one counter: while the loop goes on the counter is the number of
\* failed invocations.
C29_BoundedAttempts ==
    /\ []((max_retries >= 1 /\ ex.pc # "idle") =>
            /\ ex.attempts <= max_retries
            /\ ex.retries = Cardinality({i \in DOMAIN ex.hist : Retried(ex.hist[i])})
            /\ ex.pc = "loop" => ex.retries = ex.attempts /\ ex.retries < max_retries
            /\ ExFinished => ex.attempts >= 1 /\ ex.retries <= max_retries)
    /\ ((max_retries >= 1 /\ ex.pc = "loop") ~> ExFinished)

\* The last invocation the budget allows has succeeded after faults of two classes.
C29_Witness ==
    /\ ex.pc = "returned" /\ max_retries = 3 /\ ex.attempts = 3
    /\ Is5xx(ex.hist[1]) /\ IsOtherStatus(ex.hist[2])
    /\ ex.retries = 2

\* The n-th failed invocation was followed by a sleep.
Slept(n) == n \in DOMAIN ex.sleeps /\ n \in DOMAIN ex.hist

\* C30, as claimed: the sleep after the n-th failed invocation is
\* base_delay*2^(n-1) when the fault is 5xx and base_delay when it is
\* unclassified, i.e. neither 4xx nor 5xx, a fault without a status code
\* included.
C30_Original ==
    \A n \in 1..Len(ex.hist) :
        Slept(n) =>
            /\ Is5xx(ex.hist[n]) => ex.sleeps[n] = retry_delay * (2 ^ (n - 1))
            /\ (~Is5xx(ex.hist[n]) /\ ~Is4xx(ex.hist[n])) => ex.sleeps[n] = retry_delay

\* C30, amended: the sleep after the n-th failed invocation, n < max_retries,
\* is base_delay*2^(n-1) when the fault is 5xx or a GitlabError without a
\* status code, and base_delay when it is a GitlabError whose status is a
\* number outside 400..599; n counts all failed invocations so far.
C30_MixedBackoff ==
    \A n \in 1..Len(ex.hist) :
        /\ (Retried(ex.hist[n]) /\ n < max_retries) => Slept(n)
        /\ Slept(n) =>
              /\ n < max_retries /\ n <= ex.retries
              /\ (Is5xx(ex.hist[n]) \/ HasNoStatus(ex.hist[n])) =>
                    ex.sleeps[n] = retry_delay * (2 ^ (n - 1))
              /\ IsOtherStatus(ex.hist[n]) => ex.sleeps[n] = retry_delay

\* A fault with another status, then a 5xx fault, then a third fault.
C30_Witness ==
    /\ retry_delay = 2 /\ max_retries = 4
    /\ Len(ex.hist) = 3
    /\ IsOtherStatus(ex.hist[1]) /\ Is5xx(ex.hist[2]) /\ Is5xx(ex.hist[3])
    /\ ex.sleeps = <<2, 4, 8>>

\* --------------------------------------- properties: the driver, continued
\* The operations and the delays of a project, as main orders them: the
\* operations of a core branch and then a delay, each pattern and then a delay.
RECURSIVE DelayedCorePlan(_)
DelayedCorePlan(bs) ==
    IF bs = <<>> THEN <<>>
    ELSE BranchPlan(Head(bs)) \o <<PlannedCall("sleep", "")>> \o DelayedCorePlan(Tail(bs))

DelayedWildcardPlan ==
    [i \in 1..(2 * Len(config.wildcard_branches_config)) |->
        IF i % 2 = 1
        THEN PlannedCall("protect_branch", config.wildcard_branches_config[(i + 1) \div 2].pattern)
        ELSE PlannedCall("sleep", "")]

DelayedPlan == DelayedCorePlan(config.core_branches) \o DelayedWildcardPlan

Shape(trace) == [i \in 1..Len(trace) |-> PlannedCall(trace[i].op, trace[i].name)]

\* C24, as claimed: within a project a delay lies between every two
\* successive reconciliation operations.
C24_Original ==
    (top.mode = "driver" /\ Processing) =>
        \A i \in 1..(Len(top.trace) - 1) : ~(IsOp(top.trace[i]) /\ IsOp(top.trace[i + 1]))

\* C24, amended: within a project the delay is performed once after the
\* operations of each core branch (creation, protection and, when required,
\* the approval rule, which follow one another without a delay) and once after
\* each wildcard protection.
C24_DelayPerEntry ==
    (top.mode = "driver" /\ Processing) =>
        /\ IsPrefix(Shape(top.trace), DelayedPlan)
        /\ top.pc \in {"create_branch", "protect_wildcard"} =>
              top.trace = <<>> \/ Last(top.trace) = Sleep
        /\ top.pc \in {"protect_branch", "add_approval_rule"} => IsOp(Last(top.trace))
        /\ top.pc = "audit" => Shape(top.trace) = DelayedPlan

\* Two core branches were processed: a delay after each, none inside.
C24_Witness ==
    /\ top.mode = "driver" /\ top.pc = "audit"
    /\ Len(config.core_branches) = 2
    /\ Shape(top.trace) =
          <<PlannedCall("create_branch", Develop), PlannedCall("protect_branch", Develop),
            PlannedCall("sleep", ""),
            PlannedCall("create_branch", Staging), PlannedCall("protect_branch", Staging),
            PlannedCall("add_approval_rule", RuleName), PlannedCall("sleep", "")>>

\* The results main appends for a project: one for a core branch, with the
\* outcome of its creation and of its protection, one for its approval rule
\* when required, one for each pattern.
Slot(name, suffix) == [name |-> name, suffix |-> suffix]

RECURSIVE CoreSlots(_)
CoreSlots(bs) ==
    IF bs = <<>> THEN <<>>
    ELSE <<Slot(Head(bs).name, "")>>
         \o (IF Head(bs).approval_required THEN <<Slot(Head(bs).name, "approval")>> ELSE <<>>)
         \o CoreSlots(Tail(bs))

Slots ==
    CoreSlots(config.core_branches)
    \o [i \in 1..Len(config.wildcard_branches_config) |->
            Slot(config.wildcard_branches_config[i].pattern, "")]

SlotsOf(results) == [i \in 1..Len(results) |-> Slot(results[i].name, results[i].suffix)]

\* The outcomes a list of results holds, in order.
RECURSIVE Outcomes(_)
Outcomes(results) ==
    IF results = <<>> THEN <<>>
    ELSE (IF Head(results).status = Dash THEN <<>> ELSE <<Head(results).status.text>>)
         \o <<Head(results).protection.text>> \o Outcomes(Tail(results))

Obtained(trace) == [i \in 1..Len(Ops(trace)) |-> Ops(trace)[i].text]

\* C25, as claimed: a result is recorded for every reconciliation outcome, so
\* when the status lines are written there are as many results as operations.
C25_Original ==
    (top.mode = "driver" /\ top.pc = "audit") => Len(top.results) = Len(Ops(top.trace))

\* C25, amended: the results of a project hold every outcome obtained, in
\* processing order: one result for a core branch with the outcomes of its
\* creation and of its protection, one for its approval rule when required,
\* one for each wildcard protection; the status lines, one per result, are
\* written after the last operation of the project and before the first
\* operation of the next project.
C25_Accumulation ==
    top.mode = "driver" =>
        /\ Processing =>
              /\ top.audit = <<>>
              /\ IsPrefix(SlotsOf(top.results), Slots)
              /\ Obtained(top.trace) =
                    Outcomes(top.results)
                    \o (IF top.pc = "protect_branch" THEN <<top.status.text>> ELSE <<>>)
              /\ top.pc = "audit" => SlotsOf(top.results) = Slots /\ cl.pc = "done"
        /\ (top.pc \in {"project", "finished"} /\ top.processed # <<>>) =>
              /\ top.audit = top.results
              /\ SlotsOf(top.audit) = Slots
              /\ Obtained(top.trace) = Outcomes(top.audit)
              /\ cl.pc = "done"
              /\ Len(top.processed) + Len(top.todo) = Len(top.selected)

\* The lines of a first project are written and a second project is to come.
C25_Witness ==
    /\ top.mode = "driver" /\ top.pc = "project"
    /\ Len(top.processed) = 1 /\ Len(top.todo) = 1
    /\ Len(top.audit) = 3 /\ Len(Ops(top.trace)) = 4
    /\ top.audit[2].suffix = "approval"

\* The entry of the configuration main is protecting.
Protecting == top.mode = "driver" /\ top.pc \in {"protect_branch", "protect_wildcard"}

ConfiguredRule ==
    LET entry == IF top.pc = "protect_wildcard" THEN branch_config ELSE branch
        name == IF top.pc = "protect_wildcard" THEN branch_config.pattern ELSE branch.name
    IN [name |-> name,
        push |-> config.access[entry.push_access_level],
        merge |-> config.access[entry.merge_access_level],
        unprotect |-> config.access["maintainer"],
        force |-> FALSE, codeowner |-> FALSE]

\* C27: a createProtectedBranch request main causes for a core branch or a
\* pattern carries the integers of the access-level map for the entry's push
\* and merge role names, the maintainer level as unprotect level, and false
\* for force push and code-owner approval; a rule reported as Protected is on
\* the project with these values.
C27_ConfiguredLevels ==
    Protecting =>
        /\ cl.fn = "protect_branch"
        /\ cl.args.wildcard <=> top.pc = "protect_wildcard"
        /\ ex.req.api = "createProtectedBranch" =>
              /\ ex.req.project = project_id /\ ex.req.name = ConfiguredRule.name
              /\ ex.req.attrs = [NoAttrs EXCEPT !.push = ConfiguredRule.push,
                                                !.merge = ConfiguredRule.merge,
                                                !.unprotect = ConfiguredRule.unprotect]
        /\ (cl.pc = "done" /\ cl.status.text = "Protected") =>
              /\ ConfiguredRule \in remote[project_id].protectedbranches
              /\ OneOfEachName(remote[project_id].protectedbranches)

\* A core branch with different push and merge roles has been protected.
C27_Witness ==
    /\ Protecting /\ top.pc = "protect_branch"
    /\ cl.pc = "done" /\ cl.status.text = "Protected"
    /\ ConfiguredRule.push = 40 /\ ConfiguredRule.merge = 30
    /\ ConfiguredRule \in remote[project_id].protectedbranches

\* ----------------------------- properties: the reconciliation, continued
\* A call that begins with the existence check.
Checked(frame) ==
    frame.fn \in Reconcilers /\ ~(frame.fn = "protect_branch" /\ frame.args.wildcard)

IsFailedText(frame) == frame.status.text = FailedOf(frame.fn)

\* The check has reported the resource absent.
ReportedAbsent ==
    IF cl.fn = "create_branch"
    THEN ex.pc = "raised" /\ IsInstance(ex.exc, "GitlabGetError")
    ELSE /\ ex.pc = "returned"
         /\ (IF cl.fn = "protect_branch" THEN cl.args.name ELSE cl.args.rule_name) \notin ex.value

\* C28, as claimed: the check ends in the already status or in Absent, and
\* the creation ends in Created or Failed only.
C28_Original ==
    [][(Checked(cl) /\ cl'.fn = cl.fn /\ cl'.pc = "done") =>
          /\ cl.pc = "probe" => IsAlready(cl'.status.text)
          /\ cl.pc = "create" => (IsCreated(cl'.status.text) \/ IsFailedText(cl'))]_vars

\* C28, amended: a call of create_branch, of protect_branch for a literal
\* name and of add_approval_rule starts with the check; the check ends in the
\* already status, in Failed when a fault leaves it, or in Absent; a creation
\* request is sent only after the check reported the resource absent; the
\* creation ends in Created, in Failed, or in the already status when it is
\* rejected with the text the function looks for; once a status is reached no
\* request is sent for the call.
C28_StateMachine ==
    [][/\ (cl.pc \in {"idle", "done"} /\ cl' # cl /\ Checked(cl')) =>
              cl'.pc = "probe" /\ ex'.attempts = 0 /\ ~IsCreate(ex'.req.api)
       /\ (Checked(cl) /\ cl.pc = "probe") =>
              /\ cl'.pc \in {"probe", "create", "done"}
              /\ cl'.pc = "create" =>
                    /\ ReportedAbsent
                    /\ IsCreate(ex'.req.api) /\ ex'.attempts = 0
              /\ cl'.pc = "done" =>
                    \/ IsAlready(cl'.status.text) /\ ex.pc = "returned"
                    \/ IsFailedText(cl') /\ ex.pc = "raised"
       /\ (Checked(cl) /\ cl.pc = "create") =>
              /\ cl'.pc \in {"create", "done"}
              /\ cl'.pc = "done" =>
                    \/ IsCreated(cl'.status.text) /\ ex.pc = "returned"
                    \/ IsFailedText(cl') /\ ex.pc = "raised"
                    \/ /\ IsAlready(cl'.status.text) /\ ex.pc = "raised"
                       /\ Contains(ex.exc.msg, BenignTextOf(cl.fn))
       /\ (Checked(cl) /\ Len(calls') = Len(calls) + 1) =>
              /\ cl.pc \in {"probe", "create"} /\ cl' = cl
              /\ IsCreate(Last(calls').api) <=> cl.pc = "create"
       /\ (Checked(cl) /\ cl.pc = "done" /\ cl' = cl) => calls' = calls /\ remote' = remote]_vars

\* A creation that was sent after the check reported absent ended in the already status.
C28_Witness ==
    /\ Checked(cl) /\ cl.pc = "done"
    /\ cl.fn = "add_approval_rule"
    /\ Sent("listApprovalRules") /\ Sent("createApprovalRule")
    /\ IsAlready(cl.status.text)

\* --------------------------------- properties: what a reported success means
\* The creation request of the call of a reconciliation function.
CreateReqOf(c) ==
    CASE c.fn = "create_branch" -> CreateBranchReq(c.args)
      [] c.fn = "protect_branch" -> CreateProtectedReq(c.args)
      [] OTHER -> CreateApprovalReq(c.args)

Succeeded ==
    /\ cl.fn \in Reconcilers /\ cl.pc = "done"
    /\ IsCreated(cl.status.text) \/ IsAlready(cl.status.text)

\* C31: when create_branch, protect_branch or add_approval_rule has returned
\* the created or the already status, the branch, the protection rule or the
\* approval rule of that name is on the remote at that moment (no step
\* deletes a resource, and the remote rejects a creation as already existing
\* only when the resource exists).
C31_SuccessImpliesPresence ==
    Succeeded => Present(CreateReqOf(cl), remote[cl.args.project])

C31_Witness ==
    /\ Succeeded /\ cl.fn = "protect_branch" /\ cl.status.text = "Protected"
    /\ Len(calls) = 3 /\ calls[2].outcome = "fault" /\ calls[3].outcome = "ok"
    /\ Present(CreateReqOf(cl), remote[cl.args.project])

\* ------------------------------- properties: a creation whose answer is lost
\* The i-th request of the call is a creation that took effect on the remote
\* and was answered with a 5xx fault, and the budget allows another attempt.
\* The faults of the running activation of the executor are those of the
\* last ex.attempts requests.
LostResponse(i) ==
    LET k == i - (Len(calls) - ex.attempts) IN
    /\ cl.fn \in Reconcilers /\ IsCreate(ex.req.api)
    /\ i \in 1..Len(calls) /\ k \in 1..Len(ex.hist)
    /\ calls[i].api = ex.req.api /\ calls[i].effect
    /\ Is5xx(ex.hist[k])
    /\ k < max_retries

\* The fault tells that the resource exists: by the text the function looks
\* for or by the conflict status.
SignalsExisting(e) ==
    \/ Contains(e.msg, BenignTextOf(cl.fn))
    \/ (e.has_code /\ e.code = 409)

\* C32, as claimed: when a creation request took effect, was answered with a
\* 5xx fault and is retried, the rejection of the retry as already existing is
\* a 4xx fault that ends the executor's activation, the function returns the
\* already status, never Failed, and the remote holds one resource of the name.
C32_RetriedCreate ==
    \A i \in 1..Len(calls) :
        LostResponse(i) =>
            /\ Present(ex.req, remote[ex.req.project])
            /\ OneOfEachName(remote[ex.req.project].protectedbranches)
            /\ OneOfEachName(remote[ex.req.project].approvalrules)
            /\ i = Len(calls) => ex.pc = "loop" /\ ENABLED with_retries
            /\ (i < Len(calls) /\ SignalsExisting(ex.hist[i - (Len(calls) - ex.attempts) + 1])) =>
                  /\ i + 1 = Len(calls)
                  /\ ex.pc = "raised" /\ Is4xx(ex.exc)
                  /\ cl.pc # "done" => ENABLED Reconcile
                  /\ cl.pc = "done" => cl.status.text = AlreadyOf(cl.fn)

\* ------------------------------------ properties: the order of the driver
\* The driver is in the loop over the wildcard patterns, or past it.
PastCoreBranches == top.pc \in {"wildcards", "protect_wildcard", "audit"}

\* The calls planned for the core branches before the one being processed.
PlannedBefore(bi) == CorePlan(SubSeq(config.core_branches, 1, bi - 1))

\* The creation of a core branch has returned Failed.
CreationFailed(e) == e.op = "create_branch" /\ e.text = FailedOf("create_branch")

\* C33: for every core branch of a project the driver calls create_branch,
\* then protect_branch, then add_approval_rule when approval_required is
\* true, each once and in this order, whatever the earlier calls returned:
\* the protection follows a creation that returned Failed, too.  The core
\* branches are processed in the order of the configuration, all of them
\* before the first wildcard pattern.
C33_FixedSequence ==
    (top.mode = "driver" /\ Processing) =>
        LET ops == Ops(top.trace) IN
        /\ Len(ops) <= Len(Plan)
        /\ \A i \in 1..Len(ops) : PlannedCall(ops[i].op, ops[i].name) = Plan[i]
        /\ \A i \in 1..Len(ops) :
              ops[i].op = "create_branch" =>
                  IF i < Len(ops)
                  THEN ops[i + 1].op = "protect_branch" /\ ops[i + 1].name = ops[i].name
                  ELSE /\ top.pc = "protect_branch" /\ cl.fn = "protect_branch"
                       /\ cl.args.name = ops[i].name /\ ~cl.args.wildcard
        /\ top.pc \in {"core", "create_branch"} => Made(top.trace) = PlannedBefore(top.bi)
        /\ top.pc = "sleep" => Made(top.trace) = PlannedBefore(top.bi + 1)
        /\ PastCoreBranches =>
              /\ IsPrefix(CorePlan(config.core_branches), Made(top.trace))
              /\ Len(ops) = Len(CorePlan(config.core_branches)) + top.wi - 1

\* Two core branches were processed; the creation of the second returned
\* Failed, the branch was protected all the same and given its approval rule.
C33_Witness ==
    /\ top.mode = "driver" /\ top.pc = "audit" /\ config = TwoBranchConfig
    /\ Len(Ops(top.trace)) = 5
    /\ Ops(top.trace)[1].text = "Created"
    /\ CreationFailed(Ops(top.trace)[3])
    /\ Ops(top.trace)[4].op = "protect_branch" /\ Ops(top.trace)[4].text = "Protected"
    /\ Ops(top.trace)[5].op = "add_approval_rule"
    /\ Ops(top.trace)[5].text = "Approval rule added"

\* ------------------------------ properties: a configuration that is not read
\* The document passes the validation of BranchProtectionConfig.
Validates(raw) ==
    validate_branch_access_levels(
        raw.access,
        [i \in DOMAIN raw.core_branches |-> CoreBranch_model(raw.core_branches[i])],
        [i \in DOMAIN raw.wildcard_branches_config |->
            WildcardBranch_model(raw.wildcard_branches_config[i])])

Unusable(f) == ~f.exists \/ ~f.readable \/ ~Validates(f.document)

DefaultConfiguration ==
    [access |-> DefaultAccess, core_branches |-> <<>>, wildcard_branches_config |-> <<>>]

\* C34: when the configuration file is missing, cannot be read or fails the
\* validation (a branch names a role that is no key of the access map), the
\* loader returns the default configuration, whose lists of core branches and
\* of wildcard patterns are empty; a run with it sends no request but the
\* listing of the projects, calls none of create_branch, protect_branch and
\* add_approval_rule, leaves the remote as it was, and once projects are
\* selected goes through all of them to the success message.
C34_NoOpRun ==
    /\ \A f \in ConfigPaths : Unusable(f) => load_from_config_path(f) = DefaultConfiguration
    /\ (top.mode = "driver" /\ config = DefaultConfiguration) =>
          /\ cl.fn \notin Reconcilers
          /\ \A i \in 1..Len(calls) : calls[i].api = "listProjects"
          /\ remote = [p \in Projects |-> EmptyProject]
          /\ top.trace = <<>> /\ top.results = <<>>
          /\ top.pc = "fatal" => top.error = "get_projects" /\ top.selected = <<>>
          /\ top.selected # <<>> =>
                /\ top.pc \in {"project", "core", "wildcards", "audit", "finished"}
                /\ top.processed \o top.todo = top.selected
                /\ top.pc # "finished" => ENABLED DriverNext
                /\ top.pc = "finished" => top.processed = top.selected

\* A document whose wildcard pattern names the role admin fails the
\* validation, and a run with the configuration loaded has processed two
\* projects and ended with the success message.
C34_Witness ==
    /\ \E f \in ConfigPaths :
          /\ f.exists /\ f.readable /\ ~Validates(f.document)
          /\ f.document.wildcard_branches_config[1].push_access_level = "admin"
          /\ config = load_from_config_path(f)
    /\ config = DefaultConfiguration
    /\ top.mode = "driver" /\ top.pc = "finished"
    /\ top.selected = <<"p1", "p2">> /\ top.processed = top.selected
    /\ remote = [p \in Projects |-> EmptyProject]
====
